---- MODULE Spec2Model ----
(***************************************************************************)
(* A model of parts of samply:                                             *)
(*   - LibMappings, the per-process address-to-library table               *)
(*     (fxprof-processed-profile/src/libs_with_ranges.rs): SpecMap;        *)
(*   - SymbolManager::load_symbol_map and load_binary, the candidate walks *)
(*     (samply-symbols/src/lib.rs): SpecLoad, SpecBinary;                  *)
(*   - SymbolManager::lookup_external and its one-slot cache               *)
(*     (samply-symbols/src/lib.rs): SpecExternal;                          *)
(*   - SymbolMapStringInterner                                             *)
(*     (samply-symbols/src/symbol_map_string_interner.rs): SpecInterner;   *)
(*   - FileContents on byte slices (samply-symbols/src/shared.rs):         *)
(*     SpecFile;                                                           *)
(*   - the suspended launch of the profiled command                        *)
(*     (samply/src/linux/process.rs): SpecProcess, and FairSpecProcess     *)
(*     with fair scheduling of the two processes;                          *)
(*   - the symbolication response and its JSON serialization               *)
(*     (samply-api/src/symbolicate): SpecResponse.                         *)
(* Each part has its own specification; the variables of the other parts   *)
(* stay at their initial values.                                           *)
(***************************************************************************)
EXTENDS Integers, Sequences, FiniteSets, TLC

VARIABLES
    sorted_lib_ranges,  \* LibMappings::sorted_lib_ranges, a Vec<Mapping<T>>
    last_call,          \* the most recent call on the table and what it returned
    frame,              \* the SymbolManager call in progress: its arguments, locals, result
    helper_log,         \* the calls made on the FileAndPathHelper so far, in order
    cached_external_file, \* SymbolManager::cached_external_file, the value behind the Mutex
    cache_mutex,        \* the task holding the guard of that Mutex, if any
    calls,              \* per task: the lookup_external call it is in, its locals, its result
    last_store,         \* the task and file of the most recent store into the slot
    interners,          \* per generation: the SymbolMapStringInterner of that symbol map
    last_resolve,       \* the most recent call on an interner and what it returned
    last_read,          \* the most recent read on a FileContents and what it returned
    parent,             \* the launching process: where it is in launch / unsuspend_and_run
    child,              \* the forked process: where it is in run_child
    open_fds,           \* the pipe descriptors each of the two processes has open
    pipes,              \* the bytes written to each pipe and not yet read
    request,            \* the symbolication Request: its jobs, as far as they are read
    response,           \* the Response the engine built for the request, if it has
    serialized          \* what serializing that Response gave, if it was serialized

mapVars == <<sorted_lib_ranges, last_call>>
managerVars == <<frame, helper_log>>
externalVars == <<cached_external_file, cache_mutex, calls, last_store>>
internerVars == <<interners, last_resolve>>
fileVars == <<last_read>>
processVars == <<parent, child, open_fds, pipes>>
responseVars == <<request, response, serialized>>
nonMapVars ==
    <<managerVars, externalVars, internerVars, fileVars, processVars, responseVars>>
nonManagerVars ==
    <<mapVars, externalVars, internerVars, fileVars, processVars, responseVars>>
nonExternalVars ==
    <<mapVars, managerVars, internerVars, fileVars, processVars, responseVars>>
nonInternerVars ==
    <<mapVars, managerVars, externalVars, fileVars, processVars, responseVars>>
nonFileVars ==
    <<mapVars, managerVars, externalVars, internerVars, processVars, responseVars>>
nonProcessVars ==
    <<mapVars, managerVars, externalVars, internerVars, fileVars, responseVars>>
nonResponseVars ==
    <<mapVars, managerVars, externalVars, internerVars, fileVars, processVars>>
vars ==
    <<mapVars, managerVars, externalVars, internerVars, fileVars, processVars, responseVars>>

(***************************************************************************)
(* Option<T>: None is the empty tuple, Some(x) the one-element tuple.      *)
(***************************************************************************)
None == <<>>
Some(x) == <<x>>
IsSome(o) == Len(o) = 1
Unwrap(o) == o[1]

(***************************************************************************)
(* Integer widths.  u32 is modelled with U32Bits bits, so that the cast    *)
(* `as u32` and the u32 addition can truncate and overflow on the small    *)
(* addresses the model enumerates.                                         *)
(***************************************************************************)
U32Bits == 2
U32Modulus == 2 ^ U32Bits
U32Max == U32Modulus - 1

\* The addresses convert_address is queried with: 0 .. MaxAvma.
MaxAvma == 6

\* The arguments add_mapping is called with.  Starts and ends are chosen so
\* that nested ranges (0..6 around 1..2), empty and inverted ranges (1..1,
\* 2..1) and ranges of U32Modulus bytes or more (0..6) all occur.
StartAvmas == {0, 1, 2}
EndAvmas == {1, 2, 6}
RelativeAddresses == {0, U32Max}
Values == {"A", "B"}
Avmas == 0 .. MaxAvma

\* struct Mapping<T>
Mapping(start_avma, end_avma, relative_address_at_start, value) ==
    [start_avma |-> start_avma, end_avma |-> end_avma,
     relative_address_at_start |-> relative_address_at_start, value |-> value]

(***************************************************************************)
(* slice::binary_search_by_key(&key, |r| r.start_avma), as the standard    *)
(* library computes it.  The result is <<"Ok", i>> or <<"Err", i>> with i  *)
(* a 0-based index, as in Rust.                                            *)
(***************************************************************************)
RECURSIVE BinarySearchLoop(_, _, _, _)
BinarySearchLoop(ranges, key, left, right) ==
    IF left >= right THEN <<"Err", left>>
    ELSE LET mid == left + ((right - left) \div 2)
             k == ranges[mid + 1].start_avma
         IN  IF k < key THEN BinarySearchLoop(ranges, key, mid + 1, right)
             ELSE IF k > key THEN BinarySearchLoop(ranges, key, left, mid)
             ELSE <<"Ok", mid>>

binary_search_by_key(ranges, key) == BinarySearchLoop(ranges, key, 0, Len(ranges))

\* Vec::remove(i) and Vec::insert(i, x), i 0-based.
VecRemove(v, i) == SubSeq(v, 1, i) \o SubSeq(v, i + 2, Len(v))
VecInsert(v, i, x) == SubSeq(v, 1, i) \o <<x>> \o SubSeq(v, i + 1, Len(v))

\* A plausible slip: on an exact start match the old entry is kept and the
\* new one is inserted in front of it.
add_mapping_keeps_old(ranges, start_avma, end_avma, relative_address_at_start, value) ==
    LET found == binary_search_by_key(ranges, start_avma)
    IN  VecInsert(ranges, found[2],
                  Mapping(start_avma, end_avma, relative_address_at_start, value))

\* LibMappings::add_mapping: the table after the call.
add_mapping(ranges, start_avma, end_avma, relative_address_at_start, value) ==
    LET found == binary_search_by_key(ranges, start_avma)
        insertion_index == found[2]
        removed == IF found[1] = "Ok" THEN VecRemove(ranges, found[2]) ELSE ranges
    IN  VecInsert(removed, insertion_index,
                  Mapping(start_avma, end_avma, relative_address_at_start, value))

\* A plausible slip: retain with the comparison the wrong way round.
remove_mapping_inverted(ranges, start_avma) ==
    SelectSeq(ranges, LAMBDA r : r.start_avma = start_avma)

\* LibMappings::remove_mapping: Vec::retain(|r| r.start_avma != start_avma).
remove_mapping(ranges, start_avma) ==
    SelectSeq(ranges, LAMBDA r : r.start_avma # start_avma)

\* A plausible slip: when the nearest entry below avma has ended, an earlier
\* entry that still covers avma answers.
lookup_earlier_covering(ranges, avma) ==
    LET covering == {i \in 1 .. Len(ranges) :
                        ranges[i].start_avma <= avma /\ avma < ranges[i].end_avma}
        found == binary_search_by_key(ranges, avma)
    IN  IF found[1] = "Ok" THEN Some(ranges[found[2] + 1])
        ELSE IF covering = {} THEN None
        ELSE Some(ranges[CHOOSE i \in covering : \A k \in covering : k <= i])

\* A plausible slip: the end of a mapping taken as inclusive.
lookup_end_inclusive(ranges, avma) ==
    LET found == binary_search_by_key(ranges, avma)
    IN  IF found[1] = "Ok" THEN Some(ranges[found[2] + 1])
        ELSE IF found[2] = 0 THEN None
        ELSE IF avma <= ranges[found[2]].end_avma THEN Some(ranges[found[2]])
        ELSE None

\* LibMappings::lookup: the mapping convert_address uses for avma, if any.
lookup(ranges, avma) ==
    LET found == binary_search_by_key(ranges, avma)
    IN  IF found[1] = "Ok" THEN Some(ranges[found[2] + 1])
        ELSE IF found[2] = 0 THEN None
        ELSE LET range_index == found[2] - 1
             IN  IF avma < ranges[range_index + 1].end_avma
                 THEN Some(ranges[range_index + 1])
                 ELSE None

(***************************************************************************)
(* LibMappings::convert_address.  The subtraction is a u64 subtraction,    *)
(* the cast `as u32` keeps the low U32Bits bits, and the u32 addition      *)
(* panics on overflow in a build with overflow checks (a debug build) and  *)
(* wraps in a build without (a release build).  The result is              *)
(* <<"None">>, <<"Some", relative_address, value>> or <<"Panic">>.         *)
(***************************************************************************)
convert_address(ranges, avma, overflow_checks) ==
    LET found == lookup(ranges, avma)
    IN  IF ~IsSome(found) THEN <<"None">>
        ELSE LET range == Unwrap(found)
                 offset_from_mapping_start == (avma - range.start_avma) % U32Modulus
                 sum == range.relative_address_at_start + offset_from_mapping_start
             IN  IF sum > U32Max /\ overflow_checks THEN <<"Panic">>
                 ELSE <<"Some", sum % U32Modulus, range.value>>

(***************************************************************************)
(* The table's operations as actions.                                      *)
(***************************************************************************)
InitMapVars ==
    /\ sorted_lib_ranges = <<>>
    /\ last_call = [op |-> "new"]

\* add_mapping(s, e, r, v).  `replaced` records which arm of the match on
\* the binary search's result ran (Ok: an entry with this start was removed).
AddMapping ==
    \E s \in StartAvmas, e \in EndAvmas, r \in RelativeAddresses, v \in Values :
        /\ sorted_lib_ranges' = add_mapping(sorted_lib_ranges, s, e, r, v)
        /\ last_call' = [op |-> "add_mapping", start_avma |-> s, end_avma |-> e,
                         relative_address_at_start |-> r, value |-> v,
                         replaced |->
                             (binary_search_by_key(sorted_lib_ranges, s)[1] = "Ok")]
        /\ UNCHANGED nonMapVars

\* remove_mapping(s).  `len_before` is the table's length before the call.
RemoveMapping ==
    \E s \in StartAvmas :
        /\ sorted_lib_ranges' = remove_mapping(sorted_lib_ranges, s)
        /\ last_call' = [op |-> "remove_mapping", start_avma |-> s,
                         len_before |-> Len(sorted_lib_ranges)]
        /\ UNCHANGED nonMapVars

\* convert_address(avma), in a build with or without overflow checks.
ConvertAddress ==
    \E avma \in Avmas, overflow_checks \in BOOLEAN :
        /\ UNCHANGED sorted_lib_ranges
        /\ last_call' = [op |-> "convert_address", avma |-> avma,
                         result |-> convert_address(sorted_lib_ranges, avma,
                                                    overflow_checks)]
        /\ UNCHANGED nonMapVars

(***************************************************************************)
(* SymbolManager (samply-symbols/src/lib.rs).                              *)
(*                                                                         *)
(* Result<T, Error>: <<"Ok", x>> or <<"Err", e>>; an Error is a tuple that *)
(* starts with the name of its variant.                                    *)
(***************************************************************************)
Ok(x) == <<"Ok", x>>
Err(e) == <<"Err", e>>
IsOk(r) == r[1] = "Ok"

\* The longest list of candidate paths the host answers with.
MaxCandidates == 3

DebugIds == {"id1", "id2"}
DebugName == "libx"

(***************************************************************************)
(* The host's files: for each location, whether open_file finds a file     *)
(* there, the format object::FileKind::parse and the PDB and Breakpad      *)
(* sniffers see in it, whether its parser accepts it, and the debug ids it *)
(* carries (one for a plain object, one per member for a fat archive or a  *)
(* dyld shared cache, none for an object without a build id).              *)
(***************************************************************************)
File(kind, well_formed, debug_ids) ==
    [kind |-> kind, well_formed |-> well_formed, debug_ids |-> debug_ids]

FileAt(path) ==
    CASE path = "gone"         -> File("Missing", FALSE, {})
      [] path = "notes.txt"    -> File("Unknown", FALSE, {})
      [] path = "libx.a"       -> File("Archive", TRUE, {})
      [] path = "libx.id1"     -> File("Elf64", TRUE, {"id1"})
      [] path = "libx.id2"     -> File("MachO64", TRUE, {"id2"})
      [] path = "libx.bad"     -> File("Elf64", FALSE, {"id1"})
      [] path = "libx.noid"    -> File("Elf64", TRUE, {})
      [] path = "libx.pdb"     -> File("Pdb", TRUE, {"id1"})
      [] path = "fat32.id2"    -> File("MachOFat32", TRUE, {"id2"})
      [] path = "fat64.both"   -> File("MachOFat64", TRUE, {"id1", "id2"})
      [] path = "dyld_cache"   -> File("DyldCache", TRUE, {"id2"})

FatKinds == {"MachOFat32", "MachOFat64"}
NormalKinds == {"Elf32", "Elf64", "MachO32", "MachO64", "Pe32", "Pe64"}

\* enum CandidatePathInfo
SingleFile(file_location) == [info |-> "SingleFile", path |-> file_location]
InDyldCache(dyld_cache_path) == [info |-> "InDyldCache", path |-> dyld_cache_path]

\* The candidates the host offers for a debug file, and for a binary.
DebugFileCandidates ==
    {SingleFile(p) : p \in {"gone", "notes.txt", "libx.id1", "libx.id2", "libx.bad",
                            "libx.pdb", "fat32.id2"}}
        \cup {InDyldCache("dyld_cache")}

BinaryCandidates ==
    {SingleFile(p) : p \in {"gone", "libx.a", "libx.id1", "libx.id2", "libx.noid",
                            "libx.pdb", "fat32.id2", "fat64.both"}}
        \cup {InDyldCache("dyld_cache")}

\* The lists of at most n elements of S.
RECURSIVE ListsUpTo(_, _)
ListsUpTo(S, n) ==
    IF n = 0 THEN {<<>>}
    ELSE LET shorter == ListsUpTo(S, n - 1)
         IN  shorter \cup {Append(l, x) : l \in {t \in shorter : Len(t) = n - 1}, x \in S}

\* struct SymbolMap, as far as load_symbol_map looks at it.
SymbolMap(debug_id, path) == [debug_id |-> debug_id, debug_file_location |-> path]

\* macho::get_arch_range: the member of a fat archive whose debug id is the
\* requested one.
get_arch_range(file, debug_id) ==
    IF debug_id \in file.debug_ids THEN Ok(debug_id) ELSE Err(<<"NoMatchingArchInFat">>)

\* elf::get_symbol_map_for_elf, macho::get_symbol_map_for_macho,
\* windows::get_symbol_map_for_pdb, ...: the symbol map of a parsed file
\* carries the file's debug id.
get_symbol_map(file, path) ==
    IF file.well_formed /\ file.debug_ids # {}
    THEN Ok(SymbolMap(CHOOSE d \in file.debug_ids : TRUE, path))
    ELSE Err(<<"ObjectParseError", file.kind>>)

\* macho::load_symbol_map_for_dyld_cache: opens the cache through the helper
\* and parses the dylib in it; the requested debug id is not passed in.
load_symbol_map_for_dyld_cache(dyld_cache_path) ==
    LET file == FileAt(dyld_cache_path)
    IN  IF file.kind = "Missing"
        THEN Err(<<"HelperErrorDuringOpenFile", dyld_cache_path>>)
        ELSE get_symbol_map(file, dyld_cache_path)

\* SymbolManager::load_symbol_map_from_path
load_symbol_map_from_path(file_location, debug_id) ==
    LET file == FileAt(file_location)
    IN  IF file.kind = "Missing"
        THEN Err(<<"HelperErrorDuringOpenFile", file_location>>)
        ELSE IF file.kind \in {"Elf32", "Elf64", "MachO32", "MachO64"}
        THEN get_symbol_map(file, file_location)
        ELSE IF file.kind \in FatKinds
        THEN LET range == get_arch_range(file, debug_id)
             IN  IF IsOk(range) THEN Ok(SymbolMap(range[2], file_location))
                 ELSE range
        ELSE IF file.kind \in {"Archive", "Coff", "Wasm"}
        THEN Err(<<"InvalidInputError", "unsupported">>)
        ELSE IF file.kind \in {"Pdb", "Breakpad"}
        THEN get_symbol_map(file, file_location)
        ELSE Err(<<"InvalidInputError", "unknown format">>)

\* A plausible slip: any symbol map that parsed is returned.
symbol_map_matches_any(symbol_map, debug_id) == TRUE

\* The guard of the first match arm, lib.rs line 278.
symbol_map_matches(symbol_map, debug_id) == symbol_map.debug_id = debug_id

\* A plausible slip: the first error is kept instead of the last.
remember_first_error(last_err, e) == IF IsSome(last_err) THEN last_err ELSE Some(e)

\* last_err = Some(e), lib.rs lines 280, 283, 396 and 399.
remember_error(last_err, e) == Some(e)

IdleFrame == [fn |-> "none", pc |-> "idle"]

InitManagerVars ==
    /\ frame = IdleFrame
    /\ helper_log = <<>>

\* load_symbol_map(debug_name, debug_id) up to the answer of
\* get_candidate_paths_for_debug_file, which is a list or an error.
LoadSymbolMapCall ==
    /\ frame.pc = "idle"
    /\ \E debug_id \in DebugIds :
        /\ helper_log' = Append(helper_log, <<"get_candidate_paths_for_debug_file">>)
        /\ \/ \E candidate_paths \in ListsUpTo(DebugFileCandidates, MaxCandidates) :
                frame' = [fn |-> "load_symbol_map", pc |-> "loop",
                          debug_id |-> debug_id,
                          candidate_paths_for_binary |-> candidate_paths,
                          next |-> 1, last_err |-> None, result |-> None]
           \/ frame' = [fn |-> "load_symbol_map", pc |-> "done",
                        debug_id |-> debug_id,
                        candidate_paths_for_binary |-> <<>>,
                        next |-> 1, last_err |-> None,
                        result |-> Some(Err(
                            <<"HelperErrorDuringGetCandidatePathsForDebugFile">>))]
    /\ UNCHANGED nonManagerVars

\* One turn of the for loop of load_symbol_map.
LoadSymbolMapTryCandidate ==
    /\ frame.fn = "load_symbol_map"
    /\ frame.pc = "loop"
    /\ frame.next <= Len(frame.candidate_paths_for_binary)
    /\ LET candidate_info == frame.candidate_paths_for_binary[frame.next]
           symbol_map ==
               IF candidate_info.info = "SingleFile"
               THEN load_symbol_map_from_path(candidate_info.path, frame.debug_id)
               ELSE load_symbol_map_for_dyld_cache(candidate_info.path)
       IN  /\ helper_log' = Append(helper_log, <<"open_file", candidate_info.path>>)
           /\ frame' =
                 IF IsOk(symbol_map) /\ symbol_map_matches(symbol_map[2], frame.debug_id)
                 THEN [frame EXCEPT !.pc = "done", !.result = Some(symbol_map)]
                 ELSE IF IsOk(symbol_map)
                 THEN [frame EXCEPT
                          !.next = @ + 1,
                          !.last_err = remember_error(@,
                              <<"UnmatchedDebugId", symbol_map[2].debug_id,
                                frame.debug_id>>)]
                 ELSE [frame EXCEPT
                          !.next = @ + 1,
                          !.last_err = remember_error(@, symbol_map[2])]
    /\ UNCHANGED nonManagerVars

\* The end of the for loop of load_symbol_map: the last error, or
\* NoCandidatePathForBinary.
LoadSymbolMapExhausted ==
    /\ frame.fn = "load_symbol_map"
    /\ frame.pc = "loop"
    /\ frame.next > Len(frame.candidate_paths_for_binary)
    /\ frame' = [frame EXCEPT
                    !.pc = "done",
                    !.result = Some(Err(
                        IF IsSome(frame.last_err) THEN Unwrap(frame.last_err)
                        ELSE <<"NoCandidatePathForBinary", DebugName, frame.debug_id>>))]
    /\ UNCHANGED <<helper_log, nonManagerVars>>

(***************************************************************************)
(* SymbolManager::load_binary                                              *)
(***************************************************************************)
\* struct BinaryImage, as far as load_binary looks at it: debug_id() is an
\* Option, path is the file that backs the image.
BinaryImage(debug_id, path, kind) == [debug_id |-> debug_id, path |-> path, kind |-> kind]

\* BinaryImage::new: parses the file and computes its debug id, if it has one.
BinaryImage_new(file, path, debug_id) ==
    IF file.well_formed THEN Ok(BinaryImage(debug_id, path, file.kind))
    ELSE Err(<<"ObjectParseError", file.kind>>)

\* The debug id of a plain object file, if it has one.
FileDebugId(file) ==
    IF file.debug_ids = {} THEN None ELSE Some(CHOOSE d \in file.debug_ids : TRUE)

\* macho::load_file_data_for_dyld_cache followed by BinaryImage::new.
load_file_data_for_dyld_cache(dyld_cache_path) ==
    LET file == FileAt(dyld_cache_path)
    IN  IF file.kind = "Missing"
        THEN Err(<<"HelperErrorDuringOpenFile", dyld_cache_path>>)
        ELSE BinaryImage_new(file, dyld_cache_path, FileDebugId(file))

\* A plausible slip: without a debug id the first member of a fat archive is
\* taken.
load_binary_from_path_first_arch(file_location, debug_id) ==
    LET file == FileAt(file_location)
    IN  IF file.kind = "Missing"
        THEN Err(<<"HelperErrorDuringOpenFile", file_location>>)
        ELSE IF file.kind \in {"Unknown", "Pdb", "Breakpad"}
        THEN Err(<<"InvalidInputError", "Unrecognized file">>)
        ELSE IF file.kind \in NormalKinds
        THEN BinaryImage_new(file, file_location, FileDebugId(file))
        ELSE IF file.kind \in FatKinds
        THEN IF ~IsSome(debug_id)
             THEN BinaryImage_new(file, file_location, FileDebugId(file))
             ELSE LET range == get_arch_range(file, Unwrap(debug_id))
                  IN  IF IsOk(range)
                      THEN BinaryImage_new(file, file_location, Some(range[2]))
                      ELSE range
        ELSE Err(<<"InvalidInputError", "unsupported">>)

\* SymbolManager::load_binary_from_path; debug_id is an Option.
load_binary_from_path(file_location, debug_id) ==
    LET file == FileAt(file_location)
    IN  IF file.kind = "Missing"
        THEN Err(<<"HelperErrorDuringOpenFile", file_location>>)
        ELSE IF file.kind \in {"Unknown", "Pdb", "Breakpad"}
        THEN Err(<<"InvalidInputError", "Unrecognized file">>)
        ELSE IF file.kind \in NormalKinds
        THEN BinaryImage_new(file, file_location, FileDebugId(file))
        ELSE IF file.kind \in FatKinds
        THEN IF ~IsSome(debug_id) THEN Err(<<"NoDisambiguatorForFatArchive">>)
             ELSE LET range == get_arch_range(file, Unwrap(debug_id))
                  IN  IF IsOk(range)
                      THEN BinaryImage_new(file, file_location, Some(range[2]))
                      ELSE range
        ELSE Err(<<"InvalidInputError", "unsupported">>)

\* A plausible slip: the check the panic message of load_binary describes,
\* "at least one of debug_id / code_id".
enough_information_one_id(debug_name, debug_id, name, code_id) ==
    IsSome(debug_id) \/ IsSome(code_id)

\* A plausible slip: the second pair is taken for present when name is.
enough_information_name_alone(debug_name, debug_id, name, code_id) ==
    \/ IsSome(debug_name) /\ IsSome(debug_id)
    \/ IsSome(name)

\* "Require at least one pair of Some()s", lib.rs lines 351 to 357.
enough_information(debug_name, debug_id, name, code_id) ==
    \/ IsSome(debug_name) /\ IsSome(debug_id)
    \/ IsSome(name) /\ IsSome(code_id)

OptionOf(S) == {None} \cup {Some(x) : x \in S}

\* The code id of the image a file holds; the callers ask for "code1".
ImageCodeId(image) == IF image.path = "libx.id1" THEN Some("code1") ELSE Some("code2")

\* A plausible slip: the TODO done, the code id compared when there is no
\* debug id.
check_loaded_image_code_id(image, debug_id, code_id) ==
    IF IsSome(debug_id)
    THEN IF image.debug_id = debug_id THEN <<"Return">>
         ELSE <<"Continue", <<"UnmatchedDebugIdOptional", Unwrap(debug_id), image.debug_id>>>>
    ELSE IF IsSome(code_id)
    THEN IF ImageCodeId(image) = code_id THEN <<"Return">>
         ELSE <<"Continue", <<"UnmatchedCodeId", Unwrap(code_id), ImageCodeId(image)>>>>
    ELSE <<"Panic">>

\* The Ok(image) arm of the loop of load_binary, lib.rs lines 382 to 397: the
\* image is returned, or an error is kept and the walk goes on, or the panic.
check_loaded_image(image, debug_id, code_id) ==
    IF IsSome(debug_id)
    THEN IF image.debug_id = debug_id THEN <<"Return">>
         ELSE <<"Continue", <<"UnmatchedDebugIdOptional", Unwrap(debug_id), image.debug_id>>>>
    ELSE IF IsSome(code_id) THEN <<"Return">>
    ELSE <<"Panic">>

\* load_binary(debug_name, debug_id, name, code_id) up to the answer of
\* get_candidate_paths_for_binary, which is a list or an error.
LoadBinaryCall ==
    /\ frame.pc = "idle"
    /\ \E debug_name \in OptionOf({DebugName}), debug_id \in OptionOf(DebugIds),
          name \in OptionOf({"libx.so"}), code_id \in OptionOf({"code1"}) :
        LET args == [fn |-> "load_binary", debug_name |-> debug_name,
                     debug_id |-> debug_id, name |-> name, code_id |-> code_id,
                     candidate_paths_for_binary |-> <<>>, next |-> 1,
                     last_err |-> None]
        IN  IF ~enough_information(debug_name, debug_id, name, code_id)
            THEN /\ frame' = args @@ [pc |-> "done",
                                      result |-> Some(Err(
                                          <<"NotEnoughInformationToIdentifyBinary">>))]
                 /\ UNCHANGED helper_log
            ELSE /\ helper_log' = Append(helper_log, <<"get_candidate_paths_for_binary">>)
                 /\ \/ \E candidate_paths \in ListsUpTo(BinaryCandidates, MaxCandidates) :
                         frame' = [args EXCEPT
                                      !.candidate_paths_for_binary = candidate_paths]
                                  @@ [pc |-> "loop", result |-> None]
                    \/ frame' = args @@ [pc |-> "done",
                                         result |-> Some(Err(
                                             <<"HelperErrorDuringGetCandidatePathsForBinary">>))]
    /\ UNCHANGED nonManagerVars

\* One turn of the for loop of load_binary.
LoadBinaryTryCandidate ==
    /\ frame.fn = "load_binary"
    /\ frame.pc = "loop"
    /\ frame.next <= Len(frame.candidate_paths_for_binary)
    /\ LET candidate_info == frame.candidate_paths_for_binary[frame.next]
           image ==
               IF candidate_info.info = "SingleFile"
               THEN load_binary_from_path(candidate_info.path, frame.debug_id)
               ELSE load_file_data_for_dyld_cache(candidate_info.path)
       IN  /\ helper_log' = Append(helper_log, <<"open_file", candidate_info.path>>)
           /\ frame' =
                 IF ~IsOk(image)
                 THEN [frame EXCEPT !.next = @ + 1,
                                    !.last_err = remember_error(@, image[2])]
                 ELSE LET checked == check_loaded_image(image[2], frame.debug_id,
                                                        frame.code_id)
                      IN  IF checked[1] = "Return"
                          THEN [frame EXCEPT !.pc = "done", !.result = Some(image)]
                          ELSE IF checked[1] = "Continue"
                          THEN [frame EXCEPT
                                   !.next = @ + 1,
                                   !.last_err = remember_error(@, checked[2])]
                          ELSE [frame EXCEPT !.pc = "panicked"]
    /\ UNCHANGED nonManagerVars

\* The end of the for loop of load_binary: the last error, or
\* NoCandidatePathForBinary.
LoadBinaryExhausted ==
    /\ frame.fn = "load_binary"
    /\ frame.pc = "loop"
    /\ frame.next > Len(frame.candidate_paths_for_binary)
    /\ frame' = [frame EXCEPT
                    !.pc = "done",
                    !.result = Some(Err(
                        IF IsSome(frame.last_err) THEN Unwrap(frame.last_err)
                        ELSE <<"NoCandidatePathForBinary", frame.debug_name,
                               frame.debug_id>>))]
    /\ UNCHANGED <<helper_log, nonManagerVars>>

(***************************************************************************)
(* SymbolManager::lookup_external and its one-slot cache                   *)
(* (samply-symbols/src/lib.rs).  Several tasks call it on one manager.     *)
(* An external file is named by its ExternalFileRef; an address inside it  *)
(* by a symbol name.                                                       *)
(***************************************************************************)
Tasks == {"t1", "t2"}
ExternalFileNames == {"a.o", "b.o", "gone.o"}
SymbolNames == {"main", "nosuch"}

ExternalFileRef(file_name) == [file_name |-> file_name]

\* The object file behind a name: the symbols it defines, or unreadable.
ExternalFileOnDisk(file_name) ==
    CASE file_name = "a.o" -> Ok({"main"})
      [] file_name = "b.o" -> Ok({"main"})
      [] OTHER -> Err(<<"HelperErrorDuringOpenFile", file_name>>)

ExternalFileSymbolMap(file_name, symbols) ==
    [file_name |-> file_name, symbols |-> symbols]

load_external_file(file_ref) ==
    LET opened == ExternalFileOnDisk(file_ref.file_name)
    IN  IF IsOk(opened)
        THEN Ok(ExternalFileSymbolMap(file_ref.file_name, opened[2]))
        ELSE opened

is_same_file(external_file, file_ref) ==
    external_file.file_name = file_ref.file_name

\* ExternalFileSymbolMap::lookup: the frames of the address, innermost first.
external_file_lookup(external_file, address_in_file) ==
    IF address_in_file \in external_file.symbols
    THEN Some(<<[function |-> Some(address_in_file),
                 file_path |-> Some(external_file.file_name),
                 line_number |-> None]>>)
    ELSE None

\* A plausible slip: the slot answers whatever file it holds.
check_cached_any_file(slot, address) ==
    IF IsSome(slot)
    THEN Some(external_file_lookup(Unwrap(slot), address.address_in_file))
    ELSE None
\* The first block of lookup_external: the answer when the slot holds the file.
check_cached(slot, address) ==
    IF IsSome(slot) /\ is_same_file(Unwrap(slot), address.file_ref)
    THEN Some(external_file_lookup(Unwrap(slot), address.address_in_file))
    ELSE None

\* The guard of the first block once the block is left.
guard_held_across_load(task, hit) == IF hit THEN None ELSE Some(task)
guard_after_check(task, hit) == None

\* *guard = Some(external_file)
cache_store_keeps_first(slot, external_file) ==
    IF IsSome(slot) THEN slot ELSE Some(external_file)
cache_store(slot, external_file) == Some(external_file)

IdleCall ==
    [pc |-> "idle", address |-> None, opened |-> <<>>, hit |-> FALSE,
     external_file |-> None, result |-> None]

InitExternalVars ==
    /\ cached_external_file = None
    /\ cache_mutex = None
    /\ calls = [t \in Tasks |-> IdleCall]
    /\ last_store = None

\* A task calls lookup_external(address); its previous call has returned.
LookupExternalCall(t) ==
    /\ calls[t].pc \in {"idle", "done"}
    /\ \E f \in ExternalFileNames, a \in SymbolNames :
          calls' = [calls EXCEPT ![t] =
                      [IdleCall EXCEPT !.pc = "lock_check",
                                       !.address = Some([file_ref |-> ExternalFileRef(f),
                                                         address_in_file |-> a])]]
    /\ UNCHANGED <<cached_external_file, cache_mutex, last_store, nonExternalVars>>

\* self.cached_external_file.lock() of the first block.
LockForCheck(t) ==
    /\ calls[t].pc = "lock_check"
    /\ cache_mutex = None
    /\ cache_mutex' = Some(t)
    /\ calls' = [calls EXCEPT ![t].pc = "checking"]
    /\ UNCHANGED <<cached_external_file, last_store, nonExternalVars>>

\* The match under the guard; the block ends and the guard is dropped.
CheckCached(t) ==
    /\ calls[t].pc = "checking"
    /\ LET answer == check_cached(cached_external_file, Unwrap(calls[t].address))
           hit == IsSome(answer)
       IN  /\ calls' = [calls EXCEPT ![t] =
                          IF hit
                          THEN [@ EXCEPT !.pc = "done", !.hit = TRUE,
                                         !.result = Some(Unwrap(answer))]
                          ELSE [@ EXCEPT !.pc = "load"]]
           /\ cache_mutex' = guard_after_check(t, hit)
    /\ UNCHANGED <<cached_external_file, last_store, nonExternalVars>>

\* self.load_external_file(&address.file_ref) is polled: the file is asked for.
LoadExternalFileStart(t) ==
    /\ calls[t].pc = "load"
    /\ calls' = [calls EXCEPT ![t] =
                   [@ EXCEPT !.pc = "loading",
                             !.opened = Append(@, Unwrap(calls[t].address).file_ref.file_name)]]
    /\ UNCHANGED <<cached_external_file, cache_mutex, last_store, nonExternalVars>>

\* The load completes; .ok()? returns None on an error.
LoadExternalFileDone(t) ==
    /\ calls[t].pc = "loading"
    /\ LET address == Unwrap(calls[t].address)
           loaded == load_external_file(address.file_ref)
       IN  calls' = [calls EXCEPT ![t] =
                       IF IsOk(loaded)
                       THEN [@ EXCEPT !.pc = "lock_store",
                                      !.external_file = Some(loaded[2]),
                                      !.result = Some(external_file_lookup(
                                                     loaded[2], address.address_in_file))]
                       ELSE [@ EXCEPT !.pc = "done", !.result = Some(None)]]
    /\ UNCHANGED <<cached_external_file, cache_mutex, last_store, nonExternalVars>>

\* if let Ok(mut guard) = self.cached_external_file.lock()
LockForStore(t) ==
    /\ calls[t].pc = "lock_store"
    /\ cache_mutex = None
    /\ cache_mutex' = Some(t)
    /\ calls' = [calls EXCEPT ![t].pc = "storing"]
    /\ UNCHANGED <<cached_external_file, last_store, nonExternalVars>>

\* *guard = Some(external_file); the guard is dropped; lookup_result is returned.
StoreExternalFile(t) ==
    /\ calls[t].pc = "storing"
    /\ cached_external_file' =
          cache_store(cached_external_file, Unwrap(calls[t].external_file))
    /\ last_store' = Some([task |-> t,
                           file_name |-> Unwrap(calls[t].external_file).file_name])
    /\ cache_mutex' = None
    /\ calls' = [calls EXCEPT ![t].pc = "done"]
    /\ UNCHANGED nonExternalVars

(***************************************************************************)
(* SymbolMapStringInterner (samply-symbols/src/symbol_map_string_interner  *)
(* .rs): one interner per symbol map, told apart by its generation.  The   *)
(* two index maps are the inverses of the two string vectors.              *)
(***************************************************************************)
Generations == {1, 2}
Strings == {"foo", "bar"}
HandleIndexes == 0 .. 5

SymbolMapStringHandle(generation, index) ==
    [generation |-> generation, index |-> index]

SymbolMapStringInterner_new(symbol_map_generation) ==
    [symbol_map_generation |-> symbol_map_generation,
     borrowed_strings |-> <<>>,
     owned_strings |-> <<>>]

\* HashMap::get on index_for_borrowed_string / index_for_owned_string.
IndexFor(strings, s) ==
    IF \E i \in 1 .. Len(strings) : strings[i] = s
    THEN Some((CHOOSE i \in 1 .. Len(strings) : strings[i] = s) - 1)
    ELSE None

\* Vec::get
VecGet(vec, index) == IF index < Len(vec) THEN Some(vec[index + 1]) ELSE None

handle(self, index) == SymbolMapStringHandle(self.symbol_map_generation, index)

\* intern: <<the interner afterwards, the handle>>
intern(self, s) ==
    LET borrowed == IndexFor(self.borrowed_strings, s)
        owned == IndexFor(self.owned_strings, s)
    IN  IF IsSome(borrowed) THEN <<self, handle(self, Unwrap(borrowed) * 2)>>
        ELSE IF IsSome(owned) THEN <<self, handle(self, Unwrap(owned) * 2 + 1)>>
        ELSE <<[self EXCEPT !.borrowed_strings = Append(@, s)],
               handle(self, Len(self.borrowed_strings) * 2)>>

intern_owned_skips_borrowed(self, s) ==
    LET owned == IndexFor(self.owned_strings, s)
    IN  IF IsSome(owned) THEN <<self, handle(self, Unwrap(owned) * 2 + 1)>>
        ELSE <<[self EXCEPT !.owned_strings = Append(@, s)],
               handle(self, Len(self.owned_strings) * 2 + 1)>>
intern_owned(self, s) ==
    LET borrowed == IndexFor(self.borrowed_strings, s)
        owned == IndexFor(self.owned_strings, s)
    IN  IF IsSome(borrowed) THEN <<self, handle(self, Unwrap(borrowed) * 2)>>
        ELSE IF IsSome(owned) THEN <<self, handle(self, Unwrap(owned) * 2 + 1)>>
        ELSE <<[self EXCEPT !.owned_strings = Append(@, s)],
               handle(self, Len(self.owned_strings) * 2 + 1)>>

\* Cow<'a, str>: a borrowed or an owned string.
Cows == {"Borrowed", "Owned"} \X Strings

intern_cow(self, cow) ==
    IF cow[1] = "Borrowed" THEN intern(self, cow[2]) ELSE intern_owned(self, cow[2])

\* resolve: the assert_eq! on the generations panics; otherwise Vec::get.
resolve_any_generation(self, h) ==
    IF h.index % 2 = 0
    THEN Ok(VecGet(self.borrowed_strings, h.index \div 2))
    ELSE Ok(VecGet(self.owned_strings, h.index \div 2))
resolve(self, h) ==
    IF h.generation # self.symbol_map_generation
    THEN <<"Panic", "Attempting to resolve handle from different symbol map">>
    ELSE IF h.index % 2 = 0
         THEN Ok(VecGet(self.borrowed_strings, h.index \div 2))
         ELSE Ok(VecGet(self.owned_strings, h.index \div 2))

InitInternerVars ==
    /\ interners = [g \in Generations |-> SymbolMapStringInterner_new(g)]
    /\ last_resolve = [op |-> "none"]

Intern ==
    \E g \in Generations, s \in Strings :
        /\ interners' = [interners EXCEPT ![g] = intern(interners[g], s)[1]]
        /\ last_resolve' = [op |-> "intern", interner |-> g, string |-> s,
                            handle |-> intern(interners[g], s)[2]]
        /\ UNCHANGED nonInternerVars

InternOwned ==
    \E g \in Generations, s \in Strings :
        /\ interners' = [interners EXCEPT ![g] = intern_owned(interners[g], s)[1]]
        /\ last_resolve' = [op |-> "intern", interner |-> g, string |-> s,
                            handle |-> intern_owned(interners[g], s)[2]]
        /\ UNCHANGED nonInternerVars

InternCow ==
    \E g \in Generations, cow \in Cows :
        /\ interners' = [interners EXCEPT ![g] = intern_cow(interners[g], cow)[1]]
        /\ last_resolve' = [op |-> "intern_cow", interner |-> g, cow |-> cow[1],
                            string |-> cow[2],
                            handle |-> intern_cow(interners[g], cow)[2]]
        /\ UNCHANGED nonInternerVars

\* resolve is called on the interner of generation g with any handle at all.
Resolve ==
    \E g \in Generations, hg \in Generations, i \in HandleIndexes :
        /\ last_resolve' = [op |-> "resolve", interner |-> g,
                            handle |-> SymbolMapStringHandle(hg, i),
                            result |-> resolve(interners[g], SymbolMapStringHandle(hg, i))]
        /\ UNCHANGED <<interners, nonInternerVars>>

(***************************************************************************)
(* impl FileContents for T: Deref<Target = [u8]> (samply-symbols/src/      *)
(* shared.rs).  Offsets and sizes are u64, slice indexes are usize; the    *)
(* widths are scaled down, keeping usize as wide as u64 on a 64-bit target *)
(* and narrower on a 32-bit one.                                           *)
(***************************************************************************)
U64Bits == 3
UsizeBits32 == 2
MaxFileLen == 2
U64s == 0 .. (2 ^ U64Bits - 1)
UsizeBits == {UsizeBits32, U64Bits}
Bytes == {0, 1}
FileBytes == UNION {[1 .. n -> Bytes] : n \in 0 .. MaxFileLen}

\* `x as usize`
AsUsize(x, usize_bits) == x % (2 ^ usize_bits)

IoError(kind, message) == <<"io::Error", kind, message>>

\* <[u8]>::get(self, start..) and .get(..len)
SliceFrom(s, start) ==
    IF start <= Len(s) THEN Some(SubSeq(s, start + 1, Len(s))) ELSE None
SliceTo(s, len) ==
    IF len <= Len(s) THEN Some(SubSeq(s, 1, len)) ELSE None

\* memchr::memchr
memchr(needle, haystack) ==
    IF \E i \in 1 .. Len(haystack) : haystack[i] = needle
    THEN Some((CHOOSE i \in 1 .. Len(haystack) :
                  /\ haystack[i] = needle
                  /\ \A j \in 1 .. i - 1 : haystack[j] # needle) - 1)
    ELSE None

read_bytes_at_end_index(self, offset, size, usize_bits) ==
    LET from == AsUsize(offset, usize_bits)
        to == AsUsize(size, usize_bits)
    IN  IF from <= to /\ to <= Len(self)
        THEN Ok(SubSeq(self, from + 1, to))
        ELSE Err(IoError("UnexpectedEof",
                 "FileContents::read_bytes_at for &[u8] was called with out-of-range indexes"))
read_bytes_at(self, offset, size, usize_bits) ==
    LET tail == SliceFrom(self, AsUsize(offset, usize_bits))
        slice == IF IsSome(tail) THEN SliceTo(Unwrap(tail), AsUsize(size, usize_bits))
                 ELSE None
    IN  IF IsSome(slice)
        THEN Ok(Unwrap(slice))
        ELSE Err(IoError("UnexpectedEof",
                 "FileContents::read_bytes_at for &[u8] was called with out-of-range indexes"))

read_bytes_at_until_or_all(self, range_start, range_end, delimiter, usize_bits) ==
    IF range_end < range_start
    THEN Err(<<"Invalid range in read_bytes_at_until">>)
    ELSE LET slice == read_bytes_at(self, range_start, range_end - range_start, usize_bits)
         IN  IF ~IsOk(slice) THEN slice
             ELSE IF IsSome(memchr(delimiter, slice[2]))
                  THEN Ok(SubSeq(slice[2], 1, Unwrap(memchr(delimiter, slice[2]))))
                  ELSE slice
read_bytes_at_until(self, range_start, range_end, delimiter, usize_bits) ==
    IF range_end < range_start
    THEN Err(<<"Invalid range in read_bytes_at_until">>)
    ELSE LET slice == read_bytes_at(self, range_start, range_end - range_start, usize_bits)
         IN  IF ~IsOk(slice) THEN slice
             ELSE IF IsSome(memchr(delimiter, slice[2]))
                  THEN Ok(SubSeq(slice[2], 1, Unwrap(memchr(delimiter, slice[2]))))
                  ELSE Err(IoError("InvalidInput", "Delimiter not found"))

InitFileVars == last_read = [op |-> "none"]

\* One read is made on one file; the reads do not depend on each other.
ReadBytesAt ==
    \E self \in FileBytes, offset \in U64s, size \in U64s, usize_bits \in UsizeBits :
        /\ last_read.op = "none"
        /\ last_read' = [op |-> "read_bytes_at", self |-> self, offset |-> offset,
                         size |-> size, usize_bits |-> usize_bits,
                         result |-> read_bytes_at(self, offset, size, usize_bits)]
        /\ UNCHANGED nonFileVars

ReadBytesAtUntil ==
    \E self \in FileBytes, range_start \in U64s, range_end \in U64s,
       delimiter \in Bytes, usize_bits \in UsizeBits :
        /\ last_read.op = "none"
        /\ last_read' = [op |-> "read_bytes_at_until", self |-> self,
                         range_start |-> range_start, range_end |-> range_end,
                         delimiter |-> delimiter, usize_bits |-> usize_bits,
                         result |-> read_bytes_at_until(self, range_start, range_end,
                                                        delimiter, usize_bits)]
        /\ UNCHANGED nonFileVars

(***************************************************************************)
(* SuspendedLaunchedProcess (samply/src/linux/process.rs): the parent      *)
(* forks a child that waits on the resume pipe before it execs the         *)
(* command, and reports a failed exec on the exec-error pipe.  Both pipes  *)
(* are O_CLOEXEC.  open_fds holds a pair <<process, fd>> for every         *)
(* descriptor a process has open; pipes holds the bytes in flight.         *)
(***************************************************************************)
MaxInterrupts == 1
ExecErrnos == {2, 13}
ResumeByte == 66
EXECERR_MSG_FOOTER == <<78, 79, 69, 88>>
PipeFds == {"resume_rp", "resume_sp", "execerr_rp", "execerr_sp"}

to_be_bytes(n) ==
    <<(n \div 16777216) % 256, (n \div 65536) % 256, (n \div 256) % 256, n % 256>>
\* A plausible slip: the bytes taken in the other order.
from_le_bytes(b) == ((b[4] * 256 + b[3]) * 256 + b[2]) * 256 + b[1]
from_be_bytes(b) == ((b[1] * 256 + b[2]) * 256 + b[3]) * 256 + b[4]

HasOpen(fds, fd) == \E p \in {"parent", "child"} : <<p, fd>> \in fds
CloseAll(fds, p) == {x \in fds : x[1] # p}

\* read(2) on a pipe with a buffer of buf_len bytes: the bytes at the head of
\* the pipe, end-of-file when no write end is open, and otherwise it blocks.
pipe_read(data, write_end_open, buf_len) ==
    IF Len(data) > 0
    THEN <<"Ok", IF Len(data) < buf_len THEN Len(data) ELSE buf_len>>
    ELSE IF write_end_open THEN <<"Blocked">> ELSE <<"Ok", 0>>

\* The match in run_child on what the read of the resume pipe returned.
run_child_execs_on_eof(read_result) ==
    IF read_result[1] = "Ok" THEN "exec" ELSE "read_resume"
run_child_after_read(read_result) ==
    IF read_result = <<"Ok", 0>> THEN "exit_0"
    ELSE IF read_result[1] = "Ok" THEN "exec"
    ELSE "read_resume"

InitProcessVars ==
    /\ parent = [pc |-> "launch", pid |-> None, wrote_resume |-> FALSE,
                 interrupts |-> 0, result |-> None]
    /\ child = [pc |-> "unborn", interrupts |-> 0, exec_called |-> FALSE,
                exec_errno |-> None, exit_status |-> None]
    /\ open_fds = {}
    /\ pipes = [resume |-> <<>>, execerr |-> <<>>]

\* launch_in_suspended_state up to the fork: both pipes exist in both processes.
Fork ==
    /\ parent.pc = "launch"
    /\ parent' = [parent EXCEPT !.pc = "close_resume_rp"]
    /\ child' = [child EXCEPT !.pc = "close_resume_sp"]
    /\ open_fds' = {"parent", "child"} \X PipeFds
    /\ UNCHANGED <<pipes, nonProcessVars>>

\* Parent arm: close(resume_rp), close(execerr_sp), Ok(Self { pid: child, .. }).
ParentCloseResumeRp ==
    /\ parent.pc = "close_resume_rp"
    /\ open_fds' = open_fds \ {<<"parent", "resume_rp">>}
    /\ parent' = [parent EXCEPT !.pc = "close_execerr_sp"]
    /\ UNCHANGED <<child, pipes, nonProcessVars>>

ParentCloseExecerrSp ==
    /\ parent.pc = "close_execerr_sp"
    /\ open_fds' = open_fds \ {<<"parent", "execerr_sp">>}
    /\ parent' = [parent EXCEPT !.pc = "suspended", !.pid = Some("child")]
    /\ UNCHANGED <<child, pipes, nonProcessVars>>

\* The parent gives up: the SuspendedLaunchedProcess is dropped (or the parent
\* terminates) and its two OwnedFds are closed.
DropSuspended ==
    /\ parent.pc = "suspended"
    /\ open_fds' = CloseAll(open_fds, "parent")
    /\ parent' = [parent EXCEPT !.pc = "dropped"]
    /\ UNCHANGED <<child, pipes, nonProcessVars>>

\* unsuspend_and_run: write(send_end_of_resume_pipe, &[0x42])
WriteResumeByte ==
    /\ parent.pc = "suspended"
    /\ pipes' = [pipes EXCEPT !.resume = Append(@, ResumeByte)]
    /\ parent' = [parent EXCEPT !.pc = "close_resume_sp", !.wrote_resume = TRUE]
    /\ UNCHANGED <<child, open_fds, nonProcessVars>>

ParentCloseResumeSp ==
    /\ parent.pc = "close_resume_sp"
    /\ open_fds' = open_fds \ {<<"parent", "resume_sp">>}
    /\ parent' = [parent EXCEPT !.pc = "read_execerr"]
    /\ UNCHANGED <<child, pipes, nonProcessVars>>

\* The read loop of unsuspend_and_run on the exec-error pipe, buffer of 8 bytes.
\* Returning drops self, which closes the parent's descriptors.
ParentReadExecerr ==
    /\ parent.pc = "read_execerr"
    /\ LET r == pipe_read(pipes.execerr, HasOpen(open_fds, "execerr_sp"), 8)
           bytes == SubSeq(pipes.execerr, 1, r[2])
       IN  /\ r[1] = "Ok"
           /\ pipes' = [pipes EXCEPT !.execerr = SubSeq(@, r[2] + 1, Len(@))]
           /\ IF r[2] = 0
              THEN /\ parent' = [parent EXCEPT !.pc = "returned",
                                    !.result = Some(Ok([pid |-> Unwrap(parent.pid)]))]
                   /\ open_fds' = CloseAll(open_fds, "parent")
              ELSE IF r[2] = 8 /\ SubSeq(bytes, 5, 8) = EXECERR_MSG_FOOTER
              THEN /\ parent' = [parent EXCEPT !.pc = "waitpid",
                                    !.result = Some(Err(<<"os error",
                                                  from_be_bytes(SubSeq(bytes, 1, 4))>>))]
                   /\ UNCHANGED open_fds
              ELSE IF r[2] = 8
              THEN /\ parent' = [parent EXCEPT !.pc = "panicked"]
                   /\ open_fds' = CloseAll(open_fds, "parent")
              ELSE /\ parent' = [parent EXCEPT !.pc = "waitpid_then_panic"]
                   /\ UNCHANGED open_fds
    /\ UNCHANGED <<child, nonProcessVars>>

\* Err(EINTR): a signal arrives while the read is blocked; the loop goes round.
ParentReadInterrupted ==
    /\ parent.pc = "read_execerr"
    /\ pipe_read(pipes.execerr, HasOpen(open_fds, "execerr_sp"), 8) = <<"Blocked">>
    /\ parent.interrupts < MaxInterrupts
    /\ parent' = [parent EXCEPT !.interrupts = @ + 1]
    /\ UNCHANGED <<child, open_fds, pipes, nonProcessVars>>

\* waitpid(self.pid, None) returns once the child has exited.
ParentWaitpid ==
    /\ parent.pc \in {"waitpid", "waitpid_then_panic"}
    /\ child.pc = "exited"
    /\ parent' = [parent EXCEPT
                    !.pc = IF parent.pc = "waitpid" THEN "returned" ELSE "panicked"]
    /\ open_fds' = CloseAll(open_fds, "parent")
    /\ UNCHANGED <<child, pipes, nonProcessVars>>

\* A plausible slip: the child goes on without closing its copy of the write
\* end of the resume pipe.
ChildKeepsResumeSp ==
    /\ child.pc = "close_resume_sp"
    /\ child' = [child EXCEPT !.pc = "close_execerr_rp"]
    /\ UNCHANGED <<parent, open_fds, pipes, nonProcessVars>>

\* Child arm: close(resume_sp), close(execerr_rp), run_child.
ChildCloseResumeSp ==
    /\ child.pc = "close_resume_sp"
    /\ open_fds' = open_fds \ {<<"child", "resume_sp">>}
    /\ child' = [child EXCEPT !.pc = "close_execerr_rp"]
    /\ UNCHANGED <<parent, pipes, nonProcessVars>>

ChildCloseExecerrRp ==
    /\ child.pc = "close_execerr_rp"
    /\ open_fds' = open_fds \ {<<"child", "execerr_rp">>}
    /\ child' = [child EXCEPT !.pc = "read_resume"]
    /\ UNCHANGED <<parent, pipes, nonProcessVars>>

\* The read loop of run_child on the resume pipe, buffer of 1 byte.
ChildReadResume ==
    /\ child.pc = "read_resume"
    /\ LET r == pipe_read(pipes.resume, HasOpen(open_fds, "resume_sp"), 1)
           next == run_child_after_read(r)
       IN  /\ r[1] = "Ok"
           /\ pipes' = [pipes EXCEPT !.resume = SubSeq(@, r[2] + 1, Len(@))]
           /\ IF next = "exit_0"
              THEN /\ child' = [child EXCEPT !.pc = "exited", !.exit_status = Some(0)]
                   /\ open_fds' = CloseAll(open_fds, "child")
              ELSE /\ child' = [child EXCEPT !.pc = next]
                   /\ UNCHANGED open_fds
    /\ UNCHANGED <<parent, nonProcessVars>>

ChildReadInterrupted ==
    /\ child.pc = "read_resume"
    /\ pipe_read(pipes.resume, HasOpen(open_fds, "resume_sp"), 1) = <<"Blocked">>
    /\ child.interrupts < MaxInterrupts
    /\ child' = [child EXCEPT !.interrupts = @ + 1]
    /\ UNCHANGED <<parent, open_fds, pipes, nonProcessVars>>

\* A plausible slip: the pipes are not close-on-exec, the command inherits them.
ExecKeepsDescriptors ==
    /\ child.pc = "exec"
    /\ child' = [child EXCEPT !.pc = "running", !.exec_called = TRUE]
    /\ UNCHANGED <<parent, open_fds, pipes, nonProcessVars>>

\* execvp succeeds: the command runs in the child and the close-on-exec
\* descriptors are gone.
ExecSucceeds ==
    /\ child.pc = "exec"
    /\ child' = [child EXCEPT !.pc = "running", !.exec_called = TRUE]
    /\ open_fds' = CloseAll(open_fds, "child")
    /\ UNCHANGED <<parent, pipes, nonProcessVars>>

\* execvp returns: errno is set.
ExecFails ==
    /\ child.pc = "exec"
    /\ \E e \in ExecErrnos :
          child' = [child EXCEPT !.pc = "write_execerr", !.exec_called = TRUE,
                                 !.exec_errno = Some(e)]
    /\ UNCHANGED <<parent, open_fds, pipes, nonProcessVars>>

\* write(send_end_of_execerr_pipe, &bytes).unwrap(): eight bytes at once.
ChildWriteExecerr ==
    /\ child.pc = "write_execerr"
    /\ IF HasOpen(open_fds, "execerr_rp")
       THEN /\ pipes' = [pipes EXCEPT !.execerr =
                           @ \o to_be_bytes(Unwrap(child.exec_errno)) \o EXECERR_MSG_FOOTER]
            /\ child' = [child EXCEPT !.pc = "_exit"]
            /\ UNCHANGED open_fds
       ELSE /\ child' = [child EXCEPT !.pc = "exited", !.exit_status = Some(101)]
            /\ open_fds' = CloseAll(open_fds, "child")
            /\ UNCHANGED pipes
    /\ UNCHANGED <<parent, nonProcessVars>>

\* libc::_exit(1)
ChildExit ==
    /\ child.pc = "_exit"
    /\ child' = [child EXCEPT !.pc = "exited", !.exit_status = Some(1)]
    /\ open_fds' = CloseAll(open_fds, "child")
    /\ UNCHANGED <<parent, pipes, nonProcessVars>>

\* The command runs to its end in the child process.
CommandExits ==
    /\ child.pc = "running"
    /\ \E exit_code \in {0, 3} :
          child' = [child EXCEPT !.pc = "exited", !.exit_status = Some(exit_code)]
    /\ UNCHANGED <<parent, open_fds, pipes, nonProcessVars>>

\* RunningProcess::wait: waitpid, then the exit status of the child.
RunningProcessWait ==
    /\ parent.pc = "returned"
    /\ IsOk(Unwrap(parent.result))
    /\ child.pc = "exited"
    /\ parent' = [parent EXCEPT !.pc = "waited",
                                !.result = Some(Ok([exit_status |-> Unwrap(child.exit_status)]))]
    /\ UNCHANGED <<child, open_fds, pipes, nonProcessVars>>

(***************************************************************************)
(* The symbolication response (samply-api/src/symbolicate/response_json.rs *)
(* and looked_up_addresses.rs).  A request is built job by job, the        *)
(* engine turns it into a Response, serde serializes the Response.         *)
(* A JSON object is a record whose optional keys hold an Option; a JSON    *)
(* map with computed keys is a function from its keys.                     *)
(***************************************************************************)
MaxJobs == 2
MaxStacks == 2
MaxFrames == 2

Lib(debug_name, breakpad_id) == [debug_name |-> debug_name, breakpad_id |-> breakpad_id]
LibX == Lib("libx", "id1")
LibY == Lib("liby", "id2")
MemoryMaps == {<<LibX>>, <<LibY, LibX>>}
RequestAddresses(lib) == IF lib = LibX THEN {0, 17, 18, 32, 47} ELSE {17}
RequestFrame(module_index, address) == [module_index |-> module_index, address |-> address]

\* The strings of libx's symbol map, interned when the map was built.
LibXInterner ==
    [symbol_map_generation |-> 1,
     borrowed_strings |-> <<"main", "helper", "main_dbg", "mid", "inner">>,
     owned_strings |-> <<"/src/a.rs", "/cargo/b.rs", "a.o">>]
Handle(s) == intern_owned(LibXInterner, s)[2]

SymbolInfo(address, size, name) == [address |-> address, size |-> size, name |-> name]
FrameDebugInfo(function, file_path, line_number) ==
    [function |-> function, file_path |-> file_path, line_number |-> line_number]

\* The symbol table of libx: <<address, symbol, frames>> per address with a
\* symbol, frames one of Available (innermost first, outer function last),
\* External, Unavailable.
LibXSymbolTable ==
    << <<17, SymbolInfo(16, Some(16), Handle("main")), <<"Unavailable">> >>,
       <<18, SymbolInfo(16, Some(16), Handle("main")),
             <<"Available",
               <<FrameDebugInfo(Some(Handle("inner")), Some(Handle("/cargo/b.rs")), Some(7)),
                 FrameDebugInfo(Some(Handle("mid")), None, Some(0)),
                 FrameDebugInfo(Some(Handle("main_dbg")), Some(Handle("/src/a.rs")),
                                Some(3))>> >> >>,
       <<32, SymbolInfo(32, None, Handle("helper")),
             <<"Available",
               <<FrameDebugInfo(None, Some(Handle("/src/a.rs")), Some(0))>> >> >>,
       <<47, SymbolInfo(32, None, Handle("helper")),
             <<"External",
               [file_ref |-> ExternalFileRef("a.o"), address_in_file |-> "main"]>> >> >>

\* SymbolMap::lookup on libx: None, or the symbol and frames of the address.
SymbolMapLookup(address) ==
    LET hits == {i \in 1 .. Len(LibXSymbolTable) : LibXSymbolTable[i][1] = address}
    IN  IF hits = {} THEN None
        ELSE LET entry == LibXSymbolTable[CHOOSE i \in hits : TRUE]
             IN  Some([symbol |-> entry[2], frames |-> entry[3]])

\* What load_symbol_map gave the engine for a library.
LoadedSymbolMap(lib) ==
    IF lib = LibX
    THEN Ok([debug_id |-> lib.breakpad_id, interner |-> LibXInterner])
    ELSE Err(<<"NoCandidatePathForDebugFile", lib.debug_name, lib.breakpad_id>>)

\* lookup_external as the engine sees it: the frames of the external file,
\* their strings interned in the symbol map.
LookupExternalFrames(address) ==
    LET loaded == load_external_file(address.file_ref)
        found == IF IsOk(loaded)
                 THEN external_file_lookup(loaded[2], address.address_in_file)
                 ELSE None
        OptHandle(o) == IF IsSome(o) THEN Some(Handle(Unwrap(o))) ELSE None
    IN  IF IsSome(found)
        THEN Some([i \in 1 .. Len(Unwrap(found)) |->
                     FrameDebugInfo(OptHandle(Unwrap(found)[i].function),
                                    OptHandle(Unwrap(found)[i].file_path),
                                    Unwrap(found)[i].line_number)])
        ELSE None

AddressResult_new(symbol) ==
    [symbol |-> symbol, function_name |-> None, inline_frames |-> None]

set_debug_info_inlines_only(self, frames) ==
    [self EXCEPT !.function_name =
                    IF Len(frames) > 0 THEN frames[Len(frames)].function ELSE None,
                 !.inline_frames = Some(SubSeq(frames, 1, Len(frames) - 1))]
set_debug_info(self, frames) ==
    [self EXCEPT !.function_name =
                    IF Len(frames) > 0 THEN frames[Len(frames)].function ELSE None,
                 !.inline_frames = Some(frames)]

\* The engine (symbolicate): the libraries and addresses the frames of all
\* jobs refer to, one load per library, one lookup per address.
JobFrames(job) ==
    UNION {{job.stacks[j][k] : k \in 1 .. Len(job.stacks[j])} :
           j \in 1 .. Len(job.stacks)}
RequestedAddresses(rq, lib) ==
    {f.address : f \in UNION {{g \in JobFrames(rq[i]) :
                                  rq[i].memory_map[g.module_index + 1] = lib} :
                              i \in 1 .. Len(rq)}}
RequestedLibs(rq) ==
    {lib \in {LibX, LibY} : RequestedAddresses(rq, lib) # {}}

LookUpAddress(address) ==
    LET info == SymbolMapLookup(address)
    IN  IF ~IsSome(info) THEN None
        ELSE LET result == AddressResult_new(Unwrap(info).symbol)
                 frames == Unwrap(info).frames
             IN  Some(CASE frames[1] = "Available" -> set_debug_info(result, frames[2])
                        [] frames[1] = "External" ->
                             IF IsSome(LookupExternalFrames(frames[2]))
                             THEN set_debug_info(result, Unwrap(LookupExternalFrames(frames[2])))
                             ELSE result
                        [] OTHER -> result)

symbolicate(rq) ==
    [lib \in RequestedLibs(rq) |->
        IF IsOk(LoadedSymbolMap(lib))
        THEN Ok([address_results |->
                    [a \in RequestedAddresses(rq, lib) |-> LookUpAddress(a)],
                 symbol_map |-> LoadedSymbolMap(lib)[2]])
        ELSE LoadedSymbolMap(lib)]

\* format_args!("{:#x}", n)
HexDigit(d) == <<"0", "1", "2", "3", "4", "5", "6", "7",
                 "8", "9", "a", "b", "c", "d", "e", "f">>[d + 1]
RECURSIVE HexDigits(_)
HexDigits(n) == IF n < 16 THEN <<HexDigit(n)>>
                ELSE Append(HexDigits(n \div 16), HexDigit(n % 16))
SerializeAsHexStr(n) == <<"0x">> \o HexDigits(n)

\* format!("{}/{}", lib.debug_name, lib.breakpad_id)
ModuleKey(lib) == <<lib.debug_name, "/", lib.breakpad_id>>

\* resolve_function_name, resolve_symbol_name, resolve_source_file_path
ResolveString(symbol_map, h) == Unwrap(resolve(symbol_map.interner, h)[2])
to_api_file_path(path) == IF path = "/cargo/b.rs" THEN "cargo:b.rs" ELSE path

BTreeMapGet_flattened(map, key) ==
    IF key \in DOMAIN map /\ IsSome(map[key]) THEN Some(map[key]) ELSE None
BTreeMapGet(map, key) == IF key \in DOMAIN map THEN Some(map[key]) ELSE None

\* line_number.and_then(NonZeroU32::new)
NonZeroLine(line_number) ==
    IF IsSome(line_number) /\ Unwrap(line_number) # 0 THEN line_number ELSE None

ResponseInlineFrame(inline, symbol_map) ==
    [function |-> IF IsSome(inline.function)
                  THEN Some(ResolveString(symbol_map, Unwrap(inline.function))) ELSE None,
     file |-> IF IsSome(inline.file_path)
              THEN Some(to_api_file_path(ResolveString(symbol_map, Unwrap(inline.file_path))))
              ELSE None,
     line |-> NonZeroLine(inline.line_number)]

\* frames.split_last(): <<outer, inlines>>
split_first(frames) == <<frames[1], SubSeq(frames, 2, Len(frames))>>
split_last(frames) == <<frames[Len(frames)], SubSeq(frames, 1, Len(frames) - 1)>>

\* The three places where ResponseFrame::serialize panics: the index into
\* memory_map, the unwrap of the address result, the expect on split_last.
ResponseFramePanics(request_frame, memory_map, symbols_by_module_index) ==
    \/ request_frame.module_index >= Len(memory_map)
    \/ /\ request_frame.module_index \in DOMAIN symbols_by_module_index
       /\ LET found == BTreeMapGet(
                         symbols_by_module_index[request_frame.module_index].address_results,
                         request_frame.address)
          IN  \/ ~IsSome(found)
              \/ /\ IsSome(Unwrap(found))
                 /\ Unwrap(Unwrap(found)).inline_frames = Some(<<>>)

ResponseFrame(index, request_frame, memory_map, symbols_by_module_index) ==
    LET always == [frame |-> index,
                   module_offset |-> SerializeAsHexStr(request_frame.address),
                   module |-> memory_map[request_frame.module_index + 1].debug_name,
                   function |-> None, function_offset |-> None, function_size |-> None,
                   file |-> None, line |-> None, inlines |-> None]
        module == symbols_by_module_index[request_frame.module_index]
        found == Unwrap(BTreeMapGet(module.address_results, request_frame.address))
        address_result == Unwrap(found)
        symbol_map == module.symbol_map
        with_symbol ==
            [always EXCEPT
               !.function = Some(ResolveString(symbol_map,
                                   IF IsSome(address_result.function_name)
                                   THEN Unwrap(address_result.function_name)
                                   ELSE address_result.symbol.name)),
               !.function_offset =
                   Some(SerializeAsHexStr(request_frame.address - address_result.symbol.address)),
               !.function_size =
                   IF IsSome(address_result.symbol.size)
                   THEN Some(SerializeAsHexStr(Unwrap(address_result.symbol.size)))
                   ELSE None]
        split == split_last(Unwrap(address_result.inline_frames))
        outer == ResponseInlineFrame(split[1], symbol_map)
    IN  IF request_frame.module_index \notin DOMAIN symbols_by_module_index THEN always
        ELSE IF ~IsSome(found) THEN always
        ELSE IF ~IsSome(address_result.inline_frames) THEN with_symbol
        ELSE [with_symbol EXCEPT
                !.file = outer.file,
                !.line = outer.line,
                !.inlines = IF split[2] # <<>>
                            THEN Some([i \in 1 .. Len(split[2]) |->
                                         ResponseInlineFrame(split[2][i], symbol_map)])
                            ELSE None]

ResponseStack_one_based(request_stack, memory_map, symbols_by_module_index) ==
    [k \in 1 .. Len(request_stack) |->
        ResponseFrame(k, request_stack[k], memory_map, symbols_by_module_index)]
ResponseStack(request_stack, memory_map, symbols_by_module_index) ==
    [k \in 1 .. Len(request_stack) |->
        ResponseFrame(k - 1, request_stack[k], memory_map, symbols_by_module_index)]

ResponseStacks(request_stacks, memory_map, symbols_by_module_index) ==
    [j \in 1 .. Len(request_stacks) |->
        ResponseStack(request_stacks[j], memory_map, symbols_by_module_index)]

\* The libraries of the job's memory map that symbols_per_lib has a result for.
JobLibs(job, symbols_per_lib) ==
    {job.memory_map[i] : i \in 1 .. Len(job.memory_map)} \cap DOMAIN symbols_per_lib

SymbolsByModuleIndex(job, symbols_per_lib) ==
    [i \in {i \in 0 .. Len(job.memory_map) - 1 :
               /\ job.memory_map[i + 1] \in DOMAIN symbols_per_lib
               /\ IsOk(symbols_per_lib[job.memory_map[i + 1]])} |->
        symbols_per_lib[job.memory_map[i + 1]][2]]

FoundModules_loaded_only(job, symbols_per_lib) ==
    LET libs == {l \in JobLibs(job, symbols_per_lib) : IsOk(symbols_per_lib[l])}
    IN  [key \in {ModuleKey(l) : l \in libs} |-> TRUE]
FoundModules(job, symbols_per_lib) ==
    LET libs == JobLibs(job, symbols_per_lib)
    IN  [key \in {ModuleKey(l) : l \in libs} |->
            IsOk(symbols_per_lib[CHOOSE l \in libs : ModuleKey(l) = key])]

\* Error::serialize: the variant's name and its Display text.
ErrorJson(err) == [name |-> err[1], message |-> <<"Display", err>>]

ModuleErrors(job, symbols_per_lib) ==
    LET libs == {l \in JobLibs(job, symbols_per_lib) : ~IsOk(symbols_per_lib[l])}
    IN  [key \in {ModuleKey(l) : l \in libs} |->
            <<ErrorJson(symbols_per_lib[CHOOSE l \in libs : ModuleKey(l) = key][2])>>]

JobResponse(job, symbols_per_lib) ==
    [stacks |-> ResponseStacks(job.stacks, job.memory_map,
                               SymbolsByModuleIndex(job, symbols_per_lib)),
     found_modules |-> FoundModules(job, symbols_per_lib),
     module_errors |-> IF DOMAIN ModuleErrors(job, symbols_per_lib) = {} THEN None
                       ELSE Some(ModuleErrors(job, symbols_per_lib))]

\* Response::serialize: {"results": [...]}, or the panic of one of its frames.
Response_serialize(self) ==
    IF \E i \in 1 .. Len(self.request) :
          \E f \in JobFrames(self.request[i]) :
             ResponseFramePanics(f, self.request[i].memory_map,
                                 SymbolsByModuleIndex(self.request[i], self.symbols_per_lib))
    THEN <<"Panic">>
    ELSE Ok([results |-> [i \in 1 .. Len(self.request) |->
                             JobResponse(self.request[i], self.symbols_per_lib)]])

RECURSIVE Flatten(_)
Flatten(seqs) == IF seqs = <<>> THEN <<>> ELSE Head(seqs) \o Flatten(Tail(seqs))
AllStacks(rq) == Flatten([i \in 1 .. Len(rq) |-> rq[i].stacks])

InitResponseVars ==
    /\ request = <<>>
    /\ response = None
    /\ serialized = None

\* The request as it is read: a job, a stack in the last job, a frame in the
\* last stack.  A frame's module_index is an index into its job's memory map.
NewJob ==
    /\ response = None
    /\ Len(request) < MaxJobs
    /\ \E memory_map \in MemoryMaps :
          request' = Append(request, [memory_map |-> memory_map, stacks |-> <<>>])
    /\ UNCHANGED <<response, serialized, nonResponseVars>>

NewStack ==
    /\ response = None
    /\ Len(request) > 0
    /\ Len(AllStacks(request)) < MaxStacks
    /\ request' = [request EXCEPT ![Len(request)].stacks = Append(@, <<>>)]
    /\ UNCHANGED <<response, serialized, nonResponseVars>>

PushFrame ==
    /\ response = None
    /\ Len(request) > 0
    /\ Len(request[Len(request)].stacks) > 0
    /\ Len(Flatten(AllStacks(request))) < MaxFrames
    /\ LET job == request[Len(request)]
       IN  \E module_index \in 0 .. Len(job.memory_map) - 1 :
           \E address \in RequestAddresses(job.memory_map[module_index + 1]) :
              request' = [request EXCEPT ![Len(request)].stacks[Len(job.stacks)] =
                            Append(@, RequestFrame(module_index, address))]
    /\ UNCHANGED <<response, serialized, nonResponseVars>>

\* The engine answers the request with a Response.
QueryApi ==
    /\ response = None
    /\ response' = Some([request |-> request, symbols_per_lib |-> symbolicate(request)])
    /\ UNCHANGED <<request, serialized, nonResponseVars>>

SerializeResponse ==
    /\ IsSome(response)
    /\ serialized = None
    /\ serialized' = Some(Response_serialize(Unwrap(response)))
    /\ UNCHANGED <<request, response, nonResponseVars>>

Init ==
    /\ InitMapVars
    /\ InitManagerVars
    /\ InitExternalVars
    /\ InitInternerVars
    /\ InitFileVars
    /\ InitProcessVars
    /\ InitResponseVars

NextMap ==
    \/ AddMapping
    \/ RemoveMapping
    \/ ConvertAddress

SpecMap == Init /\ [][NextMap]_vars

NextLoad ==
    \/ LoadSymbolMapCall
    \/ LoadSymbolMapTryCandidate
    \/ LoadSymbolMapExhausted

SpecLoad == Init /\ [][NextLoad]_vars

NextBinary ==
    \/ LoadBinaryCall
    \/ LoadBinaryTryCandidate
    \/ LoadBinaryExhausted

SpecBinary == Init /\ [][NextBinary]_vars

NextExternal ==
    \/ \E t \in Tasks : LookupExternalCall(t)
    \/ \E t \in Tasks : LockForCheck(t)
    \/ \E t \in Tasks : CheckCached(t)
    \/ \E t \in Tasks : LoadExternalFileStart(t)
    \/ \E t \in Tasks : LoadExternalFileDone(t)
    \/ \E t \in Tasks : LockForStore(t)
    \/ \E t \in Tasks : StoreExternalFile(t)

SpecExternal == Init /\ [][NextExternal]_vars

NextInterner ==
    \/ Intern
    \/ InternOwned
    \/ InternCow
    \/ Resolve

SpecInterner == Init /\ [][NextInterner]_vars

NextFile ==
    \/ ReadBytesAt
    \/ ReadBytesAtUntil

SpecFile == Init /\ [][NextFile]_vars

NextProcess ==
    \/ Fork
    \/ ParentCloseResumeRp
    \/ ParentCloseExecerrSp
    \/ DropSuspended
    \/ WriteResumeByte
    \/ ParentCloseResumeSp
    \/ ParentReadExecerr
    \/ ParentReadInterrupted
    \/ ParentWaitpid
    \/ ChildCloseResumeSp
    \/ ChildCloseExecerrRp
    \/ ChildReadResume
    \/ ChildReadInterrupted
    \/ ExecSucceeds
    \/ ExecFails
    \/ ChildWriteExecerr
    \/ ChildExit
    \/ CommandExits
    \/ RunningProcessWait

SpecProcess == Init /\ [][NextProcess]_vars

\* Scheduling: a process that is inside a call and can take its next step
\* takes it; a read that is not blocked returns.  Whether the caller goes on
\* to unsuspend_and_run, drops the process or waits for it, whether a signal
\* interrupts a read, and whether the command ever ends, are left open.
ParentStep ==
    \/ ParentCloseResumeRp
    \/ ParentCloseExecerrSp
    \/ ParentCloseResumeSp
    \/ ParentReadExecerr
    \/ ParentWaitpid
ChildStep ==
    \/ ChildCloseResumeSp
    \/ ChildCloseExecerrRp
    \/ ChildReadResume
    \/ ExecSucceeds
    \/ ExecFails
    \/ ChildWriteExecerr
    \/ ChildExit

FairSpecProcess == SpecProcess /\ WF_vars(ParentStep) /\ WF_vars(ChildStep)

NextResponse ==
    \/ NewJob
    \/ NewStack
    \/ PushFrame
    \/ QueryApi
    \/ SerializeResponse

SpecResponse == Init /\ [][NextResponse]_vars

(***************************************************************************)
(* Properties of the mapping table (checked under SpecMap).                *)
(***************************************************************************)
Contains(e, avma) == e.start_avma <= avma /\ avma < e.end_avma

Covering(ranges, avma) == {i \in 1 .. Len(ranges) : Contains(ranges[i], avma)}

StrictlySorted(ranges) ==
    \A i, j \in 1 .. Len(ranges) :
        i < j => ranges[i].start_avma < ranges[j].start_avma

Sorted(ranges) ==
    \A i, j \in 1 .. Len(ranges) :
        i < j => ranges[i].start_avma <= ranges[j].start_avma

\* Two half-open intervals share an address.
Overlap(s1, e1, s2, e2) == s1 < e1 /\ s2 < e2 /\ s1 < e2 /\ s2 < e1

NonOverlapping(ranges) ==
    \A i, j \in 1 .. Len(ranges) :
        i # j => ~Overlap(ranges[i].start_avma, ranges[i].end_avma,
                          ranges[j].start_avma, ranges[j].end_avma)

NonEmptyRanges(ranges) ==
    \A i \in 1 .. Len(ranges) : ranges[i].start_avma < ranges[i].end_avma

\* What the callers of add_mapping are responsible for.
WellFormed(ranges) == NonOverlapping(ranges) /\ NonEmptyRanges(ranges)

\* C1 as stated: whenever convert_address(avma) returns Some((rel, v)), exactly
\* one entry covers avma, v is its value and rel is its relative address at
\* start plus the offset of avma in it.
C1_ConvertUniqueEntry ==
    (last_call.op = "convert_address" /\ last_call.result[1] = "Some") =>
        /\ Cardinality(Covering(sorted_lib_ranges, last_call.avma)) = 1
        /\ \A i \in Covering(sorted_lib_ranges, last_call.avma) :
              /\ last_call.result[3] = sorted_lib_ranges[i].value
              /\ last_call.result[2] =
                     sorted_lib_ranges[i].relative_address_at_start
                         + (last_call.avma - sorted_lib_ranges[i].start_avma)

\* C1 amended: in a table whose ranges are non-empty and pairwise
\* non-overlapping, whenever convert_address(avma) returns Some((rel, v)),
\* exactly one entry covers avma, v is its value and rel is its relative
\* address at start plus the offset of avma in it, modulo 2^32.
C1_ConvertUniqueEntryWellFormed ==
    (/\ last_call.op = "convert_address"
     /\ last_call.result[1] = "Some"
     /\ WellFormed(sorted_lib_ranges)) =>
        /\ Cardinality(Covering(sorted_lib_ranges, last_call.avma)) = 1
        /\ \A i \in Covering(sorted_lib_ranges, last_call.avma) :
              /\ last_call.result[3] = sorted_lib_ranges[i].value
              /\ last_call.result[2] =
                     (sorted_lib_ranges[i].relative_address_at_start
                         + (last_call.avma - sorted_lib_ranges[i].start_avma))
                     % U32Modulus

\* A conversion that succeeded in a well-formed table of two entries, with a
\* relative address that wrapped.
C1_Witness ==
    /\ last_call.op = "convert_address"
    /\ last_call.result[1] = "Some"
    /\ WellFormed(sorted_lib_ranges)
    /\ Len(sorted_lib_ranges) >= 2
    /\ \E i \in Covering(sorted_lib_ranges, last_call.avma) :
          sorted_lib_ranges[i].relative_address_at_start
              + (last_call.avma - sorted_lib_ranges[i].start_avma) > U32Max

\* C2: right after add_mapping(s, e, r, v), convert_address(s) returns
\* Some((r, v)), whatever the table held before (in either build).
C2_AddThenConvertStart ==
    last_call.op = "add_mapping" =>
        \A overflow_checks \in BOOLEAN :
            convert_address(sorted_lib_ranges, last_call.start_avma, overflow_checks)
                = <<"Some", last_call.relative_address_at_start, last_call.value>>

\* An add_mapping that replaced an entry with the same start, in a table
\* that holds other entries too.
C2_Witness ==
    /\ last_call.op = "add_mapping"
    /\ last_call.replaced
    /\ Len(sorted_lib_ranges) >= 2
    /\ convert_address(sorted_lib_ranges, last_call.start_avma, TRUE)
           = <<"Some", last_call.relative_address_at_start, last_call.value>>

\* C3 as stated: in every reachable state the entries are sorted by start,
\* pairwise non-overlapping, and each has start_avma < end_avma.
C3_SortedNonOverlapping ==
    /\ Sorted(sorted_lib_ranges)
    /\ NonOverlapping(sorted_lib_ranges)
    /\ NonEmptyRanges(sorted_lib_ranges)

\* The caller's part: the added range is non-empty and overlaps no entry
\* with another start.
CallerKeepsRangesApart(ranges, start_avma, end_avma) ==
    /\ start_avma < end_avma
    /\ \A i \in 1 .. Len(ranges) :
          ranges[i].start_avma # start_avma =>
              ~Overlap(start_avma, end_avma, ranges[i].start_avma, ranges[i].end_avma)

\* C3 amended: in every reachable state the entries are strictly sorted by
\* start; non-empty and pairwise non-overlapping ranges are kept by every
\* remove_mapping, and by every add_mapping whose range is non-empty and
\* overlaps no entry with another start (the table does not enforce either).
C3_SortedAndWellFormedKept ==
    /\ []StrictlySorted(sorted_lib_ranges)
    /\ [][(/\ WellFormed(sorted_lib_ranges)
           /\ last_call'.op = "add_mapping" =>
                  CallerKeepsRangesApart(sorted_lib_ranges, last_call'.start_avma,
                                         last_call'.end_avma))
          => WellFormed(sorted_lib_ranges')]_vars

\* A table of three well-formed entries, just added to.
C3_Witness ==
    /\ last_call.op = "add_mapping"
    /\ Len(sorted_lib_ranges) = 3
    /\ WellFormed(sorted_lib_ranges)

\* C4 as stated: convert_address(avma) returns None whenever avma equals the
\* end_avma of some entry.
C4_EndExclusive ==
    (/\ last_call.op = "convert_address"
     /\ \E i \in 1 .. Len(sorted_lib_ranges) :
           sorted_lib_ranges[i].end_avma = last_call.avma)
        => last_call.result = <<"None">>

\* C4 amended: when avma equals the end_avma of an entry e that starts below
\* avma, convert_address(avma) is never answered from e, and it returns None
\* unless another entry starts after e.start_avma and at or below avma.
C4_EndExclusiveOfThatEntry ==
    last_call.op = "convert_address" =>
        \A i \in 1 .. Len(sorted_lib_ranges) :
            (/\ sorted_lib_ranges[i].end_avma = last_call.avma
             /\ sorted_lib_ranges[i].start_avma < last_call.avma) =>
                /\ lookup(sorted_lib_ranges, last_call.avma) # Some(sorted_lib_ranges[i])
                /\ (~\E j \in 1 .. Len(sorted_lib_ranges) :
                        /\ sorted_lib_ranges[j].start_avma > sorted_lib_ranges[i].start_avma
                        /\ sorted_lib_ranges[j].start_avma <= last_call.avma)
                   => last_call.result = <<"None">>

\* A conversion of the end of the last entry at or below it: None.
C4_Witness ==
    /\ last_call.op = "convert_address"
    /\ last_call.result = <<"None">>
    /\ \E i \in 1 .. Len(sorted_lib_ranges) :
          /\ sorted_lib_ranges[i].end_avma = last_call.avma
          /\ sorted_lib_ranges[i].start_avma < last_call.avma
          /\ sorted_lib_ranges[i].relative_address_at_start = 0
          /\ i = Len(sorted_lib_ranges)
          /\ i >= 2

\* The entries of a table that start at start_avma.
WithStart(ranges, start_avma) ==
    {i \in 1 .. Len(ranges) : ranges[i].start_avma = start_avma}

\* The add_mapping step just taken replaced an entry: the frame part of C5.
\* Exactly one entry has the added start and it carries the new end,
\* relative address and value; the number of entries is unchanged; every
\* entry with another start is still there, unchanged.
ReplacedInPlace(before, after, call) ==
    /\ Cardinality(WithStart(after, call.start_avma)) = 1
    /\ \A i \in WithStart(after, call.start_avma) :
          after[i] = Mapping(call.start_avma, call.end_avma,
                             call.relative_address_at_start, call.value)
    /\ Len(after) = Len(before)
    /\ \A i \in 1 .. Len(before) :
          before[i].start_avma # call.start_avma =>
              \E j \in 1 .. Len(after) : after[j] = before[i]
    /\ \A j \in 1 .. Len(after) :
          after[j].start_avma # call.start_avma =>
              \E i \in 1 .. Len(before) : before[i] = after[j]

\* C5 as stated: add_mapping on an existing start replaces that entry in
\* place, and every address inside the new range then converts to the new
\* value (a panic on the overflow of the relative address is not held
\* against the claim here).
C5_ReplaceThenConvertInside ==
    [][(/\ last_call'.op = "add_mapping"
        /\ WithStart(sorted_lib_ranges, last_call'.start_avma) # {}) =>
           /\ ReplacedInPlace(sorted_lib_ranges, sorted_lib_ranges', last_call')
           /\ \A avma \in Avmas, overflow_checks \in BOOLEAN :
                 (last_call'.start_avma <= avma /\ avma < last_call'.end_avma) =>
                     LET result == convert_address(sorted_lib_ranges', avma,
                                                   overflow_checks)
                     IN  \/ result = <<"Panic">>
                         \/ result[1] = "Some" /\ result[3] = last_call'.value
      ]_vars

\* C5 amended: add_mapping on an existing start replaces that entry in
\* place; an address inside the new range for which no other entry starts
\* above the new start and at or below the address is then converted through
\* the new entry: the call returns the new value and the new relative address
\* plus the offset modulo 2^32, or panics on the overflow of that sum in a
\* build with overflow checks.
C5_ReplaceThenConvertThroughNew ==
    [][(/\ last_call'.op = "add_mapping"
        /\ WithStart(sorted_lib_ranges, last_call'.start_avma) # {}) =>
           /\ ReplacedInPlace(sorted_lib_ranges, sorted_lib_ranges', last_call')
           /\ \A avma \in Avmas, overflow_checks \in BOOLEAN :
                 (/\ last_call'.start_avma <= avma
                  /\ avma < last_call'.end_avma
                  /\ ~\E j \in 1 .. Len(sorted_lib_ranges') :
                        /\ sorted_lib_ranges'[j].start_avma > last_call'.start_avma
                        /\ sorted_lib_ranges'[j].start_avma <= avma) =>
                     LET result == convert_address(sorted_lib_ranges', avma,
                                                   overflow_checks)
                         sum == last_call'.relative_address_at_start
                                    + ((avma - last_call'.start_avma) % U32Modulus)
                     IN  IF overflow_checks /\ sum > U32Max
                         THEN result = <<"Panic">>
                         ELSE result = <<"Some", sum % U32Modulus, last_call'.value>>
      ]_vars

\* An add_mapping that replaced the first of three entries by a longer range
\* with another value.
C5_Witness ==
    /\ last_call.op = "add_mapping"
    /\ last_call.replaced
    /\ Len(sorted_lib_ranges) = 3
    /\ last_call.start_avma = 0
    /\ last_call.end_avma > 2
    /\ convert_address(sorted_lib_ranges, 0, TRUE)
           = <<"Some", last_call.relative_address_at_start, last_call.value>>

\* The number of entries among the first i that do not start at start_avma.
KeptUpTo(ranges, start_avma, i) ==
    Cardinality({k \in 1 .. i : ranges[k].start_avma # start_avma})

\* C6: remove_mapping(s) leaves no entry with start s, keeps every entry with
\* another start, with the same fields and in the same relative order, and
\* leaves a table without an entry at s unchanged.
C6_RemoveDropsOnlyThatStart ==
    [][last_call'.op = "remove_mapping" =>
           LET s == last_call'.start_avma
               before == sorted_lib_ranges
               after == sorted_lib_ranges'
           IN  /\ WithStart(after, s) = {}
               /\ Len(after) = KeptUpTo(before, s, Len(before))
               /\ \A i \in 1 .. Len(before) :
                     before[i].start_avma # s =>
                         after[KeptUpTo(before, s, i)] = before[i]
               /\ (WithStart(before, s) = {} => after = before)
      ]_vars

\* A remove_mapping that dropped the middle one of three entries.
C6_Witness ==
    /\ last_call.op = "remove_mapping"
    /\ last_call.len_before = 3
    /\ last_call.start_avma = 1
    /\ Len(sorted_lib_ranges) = 2

(***************************************************************************)
(* Properties of load_symbol_map (checked under SpecLoad).                 *)
(***************************************************************************)
\* The locations passed to open_file so far, in order.
Opened == SelectSeq(helper_log, LAMBDA call : call[1] = "open_file")

\* What loading candidate c for debug_id gives, before the id is compared.
CandidateSymbolMap(c, debug_id) ==
    IF c.info = "SingleFile" THEN load_symbol_map_from_path(c.path, debug_id)
    ELSE load_symbol_map_for_dyld_cache(c.path)

\* Candidate c opens, parses, and its parsed debug id is the requested one.
CandidateLoads(c, debug_id) ==
    /\ IsOk(CandidateSymbolMap(c, debug_id))
    /\ CandidateSymbolMap(c, debug_id)[2].debug_id = debug_id

CandidateError(c, debug_id) ==
    IF IsOk(CandidateSymbolMap(c, debug_id))
    THEN <<"UnmatchedDebugId", CandidateSymbolMap(c, debug_id)[2].debug_id, debug_id>>
    ELSE CandidateSymbolMap(c, debug_id)[2]

\* The host answered get_candidate_paths_for_debug_file with a list.
HelperAnswered ==
    Unwrap(frame.result) # Err(<<"HelperErrorDuringGetCandidatePathsForDebugFile">>)

\* C8: when load_symbol_map has gone through the whole list without a match,
\* it returns the error of the last candidate (UnmatchedDebugId(found,
\* requested) with the last pair if that candidate parsed), and
\* NoCandidatePathForBinary if the list was empty.
C8_LastErrorReturned ==
    (/\ frame.fn = "load_symbol_map"
     /\ frame.pc = "done"
     /\ ~IsOk(Unwrap(frame.result))
     /\ HelperAnswered) =>
        LET candidates == frame.candidate_paths_for_binary
            n == Len(candidates)
        IN  /\ n = 0 =>
                  Unwrap(frame.result)
                      = Err(<<"NoCandidatePathForBinary", DebugName, frame.debug_id>>)
            /\ n > 0 =>
                  Unwrap(frame.result) = Err(CandidateError(candidates[n], frame.debug_id))
            /\ (n > 0 /\ \A i \in 1 .. n :
                              IsOk(CandidateSymbolMap(candidates[i], frame.debug_id))) =>
                  Unwrap(frame.result)
                      = Err(<<"UnmatchedDebugId",
                              CandidateSymbolMap(candidates[n], frame.debug_id)[2].debug_id,
                              frame.debug_id>>)

\* load_symbol_map went through three candidates that failed in three ways:
\* the first did not open, the second parsed with another debug id, the last
\* did not parse; the error returned is the last one's.
C8_Witness ==
    /\ frame.fn = "load_symbol_map"
    /\ frame.pc = "done"
    /\ Len(frame.candidate_paths_for_binary) = 3
    /\ Len(Opened) = 3
    /\ CandidateError(frame.candidate_paths_for_binary[1], frame.debug_id)[1]
           = "HelperErrorDuringOpenFile"
    /\ CandidateError(frame.candidate_paths_for_binary[2], frame.debug_id)[1]
           = "UnmatchedDebugId"
    /\ Unwrap(frame.result) = Err(<<"ObjectParseError", "Elf64">>)

(***************************************************************************)
(* Properties of load_binary (checked under SpecBinary).                   *)
(***************************************************************************)
\* C9: load_binary called with neither (debug_name, debug_id) both present
\* nor (name, code_id) both present fails with
\* NotEnoughInformationToIdentifyBinary, and no call has been made on the
\* helper: no candidate paths asked for, no file opened.
C9_NotEnoughInformation ==
    (/\ frame.fn = "load_binary"
     /\ ~(IsSome(frame.debug_name) /\ IsSome(frame.debug_id))
     /\ ~(IsSome(frame.name) /\ IsSome(frame.code_id))) =>
        /\ frame.pc = "done"
        /\ Unwrap(frame.result) = Err(<<"NotEnoughInformationToIdentifyBinary">>)
        /\ helper_log = <<>>

\* load_binary was called with a debug id and a name but neither pair, and
\* failed.
C9_Witness ==
    /\ frame.fn = "load_binary"
    /\ frame.pc = "done"
    /\ IsSome(frame.debug_id)
    /\ IsSome(frame.name)
    /\ ~IsSome(frame.debug_name)
    /\ ~IsSome(frame.code_id)
    /\ Unwrap(frame.result) = Err(<<"NotEnoughInformationToIdentifyBinary">>)

\* load_binary has opened a fat archive.
OpenedFatArchive ==
    \E i \in 1 .. Len(Opened) : FileAt(Opened[i][2]).kind \in FatKinds

\* C10 as stated: load_binary called without a debug_id that opens a fat
\* archive fails with NoDisambiguatorForFatArchive, and never returns an
\* image backed by that archive.
C10_FatArchiveFailsCall ==
    (/\ frame.fn = "load_binary"
     /\ frame.pc = "done"
     /\ ~IsSome(frame.debug_id)
     /\ OpenedFatArchive) =>
        Unwrap(frame.result) = Err(<<"NoDisambiguatorForFatArchive">>)

\* C10 amended: when load_binary, called without a debug_id, opens a fat
\* archive, that candidate is refused with NoDisambiguatorForFatArchive and
\* the walk goes on: the error is the call's result only if the archive is
\* the last candidate opened.  The call never returns an image backed by a
\* fat archive.
C10_FatArchiveRefused ==
    (frame.fn = "load_binary" /\ ~IsSome(frame.debug_id)) =>
        /\ (Len(Opened) > 0 /\ FileAt(Opened[Len(Opened)][2]).kind \in FatKinds) =>
              /\ frame.pc \in {"loop", "done"}
              /\ frame.last_err = Some(<<"NoDisambiguatorForFatArchive">>)
              /\ frame.pc = "done" =>
                    Unwrap(frame.result) = Err(<<"NoDisambiguatorForFatArchive">>)
        /\ (frame.pc = "done" /\ IsOk(Unwrap(frame.result))) =>
              FileAt(Unwrap(frame.result)[2].path).kind \notin FatKinds

\* load_binary without a debug_id went through a file that did not open and
\* then through a 64-bit fat archive, its last candidate, and failed with
\* NoDisambiguatorForFatArchive.
C10_Witness ==
    /\ frame.fn = "load_binary"
    /\ frame.pc = "done"
    /\ ~IsSome(frame.debug_id)
    /\ Len(Opened) = 2
    /\ FileAt(Opened[1][2]).kind = "Missing"
    /\ FileAt(Opened[2][2]).kind = "MachOFat64"
    /\ Unwrap(frame.result) = Err(<<"NoDisambiguatorForFatArchive">>)

(***************************************************************************)
(* Properties of lookup_external (checked under SpecExternal).             *)
(***************************************************************************)
AddressOf(t) == Unwrap(calls[t].address)
FileNameOf(t) == AddressOf(t).file_ref.file_name
SlotHolds(file_name) ==
    IsSome(cached_external_file) /\ Unwrap(cached_external_file).file_name = file_name
LeavesCheck(t) == calls[t].pc = "checking" /\ calls'[t].pc # "checking"
LeavesStore(t) == calls[t].pc = "storing" /\ calls'[t].pc # "storing"

\* A call that missed has asked for its own file once and for nothing else;
\* a call that hit has asked for no file.
OpenedOwnFileOnly ==
    \A t \in Tasks :
        /\ calls[t].pc \in {"loading", "lock_store", "storing"}
              => calls[t].opened = <<FileNameOf(t)>>
        /\ calls[t].pc = "done"
              => calls[t].opened = IF calls[t].hit THEN <<>> ELSE <<FileNameOf(t)>>

\* The check of a call whose file the slot holds answers from the slot and
\* leaves the slot alone; any other check goes on to load.
CheckStep ==
    \A t \in Tasks :
        LeavesCheck(t) =>
            IF SlotHolds(FileNameOf(t))
            THEN /\ calls'[t].pc = "done"
                 /\ calls'[t].hit
                 /\ calls'[t].opened = <<>>
                 /\ calls'[t].result =
                       Some(external_file_lookup(Unwrap(cached_external_file),
                                                 AddressOf(t).address_in_file))
                 /\ cached_external_file' = cached_external_file
            ELSE calls'[t].pc = "load" /\ ~calls'[t].hit

\* The slot changes only in the store of a call that loaded its file, and then
\* it holds that file, so that the check of a following call for it is a hit.
StoreStep ==
    /\ \A t \in Tasks :
          LeavesStore(t) =>
              /\ calls[t].external_file = Some(load_external_file(AddressOf(t).file_ref)[2])
              /\ cached_external_file' = calls[t].external_file
              /\ check_cached(cached_external_file', AddressOf(t)) = calls[t].result
    /\ cached_external_file' # cached_external_file => \E t \in Tasks : LeavesStore(t)

\* C11: the external-file cache is one slot: it holds at most one
\* external-file symbol map; a lookup_external call whose file_ref matches the
\* cached file answers from the slot without opening a file; a call whose
\* file_ref does not match asks for that file and, once it is loaded, replaces
\* the slot with it, so that a following call for that file is a hit (a load
\* that fails returns None and leaves the slot as it was).
C11_SingleSlotCache ==
    /\ [](Len(cached_external_file) <= 1 /\ OpenedOwnFileOnly)
    /\ [][CheckStep /\ StoreStep]_vars

\* A task's call missed and stored "a.o"; its next call, for "a.o", was a hit.
C11_Witness ==
    \E t \in Tasks :
        /\ calls[t].pc = "done" /\ calls[t].hit /\ calls[t].opened = <<>>
        /\ FileNameOf(t) = "a.o"
        /\ last_store = Some([task |-> t, file_name |-> "a.o"])
        /\ IsSome(Unwrap(calls[t].result))

HoldsGuard(t) == cache_mutex = Some(t)
WaitsForGuard(t) == calls[t].pc \in {"lock_check", "lock_store"}
InGuardedBlock(t) == calls[t].pc \in {"checking", "storing"}

\* C12: in lookup_external the guard of the cache mutex is held only in the
\* identity check and in the store, never while the external file is loaded:
\* a task that waits for the mutex waits for a task that is inside one of
\* those two blocks, which needs neither the mutex nor I/O to leave it (no
\* deadlock, no waiting on another call's I/O); and the slot holds the file of
\* the store that came last.
C12_GuardNotHeldAcrossLoad ==
    /\ \A t \in Tasks : HoldsGuard(t) <=> InGuardedBlock(t)
    /\ \A t \in Tasks :
          WaitsForGuard(t) /\ IsSome(cache_mutex)
              => InGuardedBlock(Unwrap(cache_mutex)) /\ Unwrap(cache_mutex) # t
    /\ IsSome(last_store) <=> IsSome(cached_external_file)
    /\ IsSome(last_store) => SlotHolds(Unwrap(last_store).file_name)

\* Two calls missed and are loading at once, while a file stored earlier by
\* one of them is in the slot and the mutex is free.
C12_Witness ==
    /\ calls["t1"].pc = "loading" /\ calls["t2"].pc = "loading"
    /\ FileNameOf("t1") = "a.o" /\ FileNameOf("t2") = "a.o"
    /\ cache_mutex = None
    /\ SlotHolds("b.o")

\* Both calls have returned after loading different files at once: the slot
\* holds the file of the one that stored last, "b.o".
C12_WitnessLastWriter ==
    /\ calls["t1"].pc = "done" /\ calls["t2"].pc = "done"
    /\ calls["t1"].opened = <<"a.o">> /\ calls["t2"].opened = <<"b.o">>
    /\ last_store = Some([task |-> "t2", file_name |-> "b.o"])
    /\ SlotHolds("b.o")

(***************************************************************************)
(* Properties of the string interner (checked under SpecInterner).         *)
(***************************************************************************)
\* C16: resolve on an interner with a handle of another generation never
\* returns a string, whatever the handle's index and whatever either interner
\* holds: the call panics on the generation assertion.
C16_ForeignHandleRefused ==
    last_resolve.op = "resolve"
        /\ last_resolve.handle.generation # last_resolve.interner
        => /\ ~IsOk(last_resolve.result)
           /\ last_resolve.result[1] = "Panic"

\* A handle of generation 2 whose index names a string in interner 1 was
\* resolved on interner 1 and refused.
C16_Witness ==
    /\ last_resolve.op = "resolve"
    /\ last_resolve.interner = 1
    /\ last_resolve.handle.generation = 2
    /\ last_resolve.handle.index % 2 = 0
    /\ IsSome(VecGet(interners[1].borrowed_strings, last_resolve.handle.index \div 2))
    /\ last_resolve.result[1] = "Panic"

(***************************************************************************)
(* Properties of the slice FileContents (checked under SpecFile).          *)
(***************************************************************************)
IsIoError(result, kind) ==
    ~IsOk(result) /\ result[2][1] = "io::Error" /\ result[2][2] = kind
OutsideFile(offset, size, len) == offset + size > len

\* C17 as stated: an out-of-file read fails with kind InvalidInput, a
\* read-until over a range without the delimiter with kind NotFound.
C17_InvalidInputAndNotFound ==
    /\ last_read.op = "read_bytes_at"
           /\ OutsideFile(last_read.offset, last_read.size, Len(last_read.self))
           => IsIoError(last_read.result, "InvalidInput")
    /\ last_read.op = "read_bytes_at_until"
           /\ last_read.range_start <= last_read.range_end
           /\ ~OutsideFile(last_read.range_start,
                           last_read.range_end - last_read.range_start,
                           Len(last_read.self))
           /\ (\A i \in last_read.range_start + 1 .. last_read.range_end :
                  last_read.self[i] # last_read.delimiter)
           => IsIoError(last_read.result, "NotFound")

\* C17, amended: a read whose offset and size, as converted to usize, do not
\* lie inside the file fails with kind UnexpectedEof (where usize is as wide
\* as u64: every read outside the file); a read-until over a range inside the
\* file that does not contain the delimiter fails with kind InvalidInput, over
\* a range outside the file with kind UnexpectedEof, over an inverted range
\* with a plain message; none of them returns a slice.
C17_UnexpectedEofAndInvalidInput ==
    /\ last_read.op = "read_bytes_at"
           /\ OutsideFile(AsUsize(last_read.offset, last_read.usize_bits),
                          AsUsize(last_read.size, last_read.usize_bits),
                          Len(last_read.self))
           => IsIoError(last_read.result, "UnexpectedEof")
    /\ last_read.op = "read_bytes_at"
           /\ last_read.usize_bits = U64Bits
           /\ OutsideFile(last_read.offset, last_read.size, Len(last_read.self))
           => IsIoError(last_read.result, "UnexpectedEof")
    /\ last_read.op = "read_bytes_at_until" =>
           LET start == last_read.range_start
               end == last_read.range_end
               bits == last_read.usize_bits
               from == AsUsize(start, bits)
               size == AsUsize(end - start, bits)
           IN  IF end < start
               THEN last_read.result = Err(<<"Invalid range in read_bytes_at_until">>)
               ELSE IF OutsideFile(from, size, Len(last_read.self))
               THEN IsIoError(last_read.result, "UnexpectedEof")
               ELSE (\A i \in from + 1 .. from + size :
                        last_read.self[i] # last_read.delimiter)
                    => IsIoError(last_read.result, "InvalidInput")

\* A read past the end of a two-byte file and a read-until over the whole of
\* a file without the delimiter have both been refused.
C17_Witness ==
    \/ /\ last_read.op = "read_bytes_at"
       /\ last_read.self = <<1, 1>> /\ last_read.offset = 1 /\ last_read.size = 2
       /\ last_read.usize_bits = U64Bits
       /\ IsIoError(last_read.result, "UnexpectedEof")
    \/ /\ last_read.op = "read_bytes_at_until"
       /\ last_read.self = <<1, 1>> /\ last_read.range_start = 0
       /\ last_read.range_end = 2 /\ last_read.delimiter = 0
       /\ IsIoError(last_read.result, "InvalidInput")

(***************************************************************************)
(* Properties of the suspended launch (checked under SpecProcess).         *)
(***************************************************************************)
\* C18: the child of launch_in_suspended_state calls exec only after the
\* parent, in unsuspend_and_run, has written the resume byte, and the parent
\* holds the child's pid before it writes that byte.
C18_ExecOnlyAfterResume ==
    /\ child.pc = "exec" \/ child.exec_called => parent.wrote_resume
    /\ parent.wrote_resume => parent.pid = Some("child")
    /\ parent.pc = "suspended" =>
          /\ parent.pid = Some("child")
          /\ ~child.exec_called /\ child.pc # "exec"

\* The command is running in the child after the parent wrote the byte; the
\* child had been interrupted once while it waited.
C18_Witness ==
    /\ child.pc = "running" /\ child.exec_called
    /\ child.interrupts = 1
    /\ parent.wrote_resume /\ parent.pid = Some("child")

(***************************************************************************)
(* Properties of the response (checked under SpecResponse).                *)
(***************************************************************************)
Serialized == IsSome(serialized) /\ IsOk(Unwrap(serialized))
Results == Unwrap(serialized)[2].results
SymbolsPerLib == Unwrap(response).symbols_per_lib
\* The request frames as <<job, stack, frame>> positions, counted from 1.
FramePositions ==
    UNION {UNION {{<<i, j, k>> : k \in 1 .. Len(request[i].stacks[j])} :
                  j \in 1 .. Len(request[i].stacks)} :
           i \in 1 .. Len(request)}
RequestFrameAt(p) == request[p[1]].stacks[p[2]][p[3]]
ResponseFrameAt(p) == Results[p[1]].stacks[p[2]][p[3]]
LibAt(p) == request[p[1]].memory_map[RequestFrameAt(p).module_index + 1]
Loaded(lib) == lib \in DOMAIN SymbolsPerLib /\ IsOk(SymbolsPerLib[lib])
Failed(lib) == lib \in DOMAIN SymbolsPerLib /\ ~IsOk(SymbolsPerLib[lib])
\* The address as "{:#x}" writes it, digit by digit.
HexOf(address) ==
    CASE address = 0 -> <<"0x", "0">>
      [] address = 17 -> <<"0x", "1", "1">>
      [] address = 18 -> <<"0x", "1", "2">>
      [] address = 32 -> <<"0x", "2", "0">>
      [] address = 47 -> <<"0x", "2", "f">>
\* The string a handle of libx's symbol map stands for.
HandleNames ==
    {<<Handle(s), s>> : s \in {"main", "helper", "main_dbg", "mid", "inner",
                               "/src/a.rs", "/cargo/b.rs", "a.o"}}
Named(h) == (CHOOSE pair \in HandleNames : pair[1] = h)[2]

\* C13: the serialized response has one result per job of the request in
\* job order, each result one stack per request stack in order, each stack as
\* many frames as the request stack, and its k-th frame carries frame = k
\* (from 0) and the module_offset (hex of the address) and module (debug name
\* of the library) of the k-th request frame, whether or not the frame's
\* library loaded.
C13_ShapeFollowsRequest ==
    Serialized =>
        /\ Len(Results) = Len(request)
        /\ \A i \in 1 .. Len(request) :
              /\ Len(Results[i].stacks) = Len(request[i].stacks)
              /\ \A j \in 1 .. Len(request[i].stacks) :
                    Len(Results[i].stacks[j]) = Len(request[i].stacks[j])
        /\ \A p \in FramePositions :
              /\ ResponseFrameAt(p).frame = p[3] - 1
              /\ ResponseFrameAt(p).module_offset = HexOf(RequestFrameAt(p).address)
              /\ ResponseFrameAt(p).module = LibAt(p).debug_name

\* A stack of two frames, the first in the library that failed to load, the
\* second in the one that loaded, has been serialized in that order.
C13_Witness ==
    /\ Serialized
    /\ \E p \in FramePositions :
          /\ p[3] = 1 /\ <<p[1], p[2], 2>> \in FramePositions
          /\ Failed(LibAt(p)) /\ Loaded(LibAt(<<p[1], p[2], 2>>))
          /\ ResponseFrameAt(<<p[1], p[2], 2>>).frame = 1
          /\ ResponseFrameAt(<<p[1], p[2], 2>>).module_offset = <<"0x", "2", "f">>

AddressResultAt(p) ==
    SymbolsPerLib[LibAt(p)][2].address_results[RequestFrameAt(p).address]
HasDebugFrames(p) ==
    /\ Loaded(LibAt(p))
    /\ IsSome(AddressResultAt(p))
    /\ IsSome(Unwrap(AddressResultAt(p)).inline_frames)
DebugFramesAt(p) == Unwrap(Unwrap(AddressResultAt(p)).inline_frames)
NamedOpt(o) == IF IsSome(o) THEN Some(Named(Unwrap(o))) ELSE None
ApiPathOpt(o) ==
    IF ~IsSome(o) THEN None
    ELSE IF Named(Unwrap(o)) = "/cargo/b.rs" THEN Some("cargo:b.rs")
    ELSE Some(Named(Unwrap(o)))
LineOpt(o) == IF o = Some(0) THEN None ELSE o

NoFunctionFields(out) ==
    /\ out.function = None /\ out.function_offset = None /\ out.function_size = None
    /\ out.file = None /\ out.line = None /\ out.inlines = None
JobLibsOf(i) ==
    {request[i].memory_map[m] : m \in 1 .. Len(request[i].memory_map)}
    \cap DOMAIN SymbolsPerLib

\* C15: a library whose load failed does not abort the serialization of its
\* job: its key "debug_name/breakpad_id" is in found_modules with false and in
\* module_errors with one entry that carries the error's name and message; a
\* frame in it carries frame, module_offset and module and no function field;
\* a frame in a library that loaded carries its function exactly when the
\* lookup found a symbol; a key is in module_errors exactly when found_modules
\* has it with false, and module_errors is left out when no library failed.
C15_FailedLibraryIsolated ==
    IsSome(serialized) =>
        /\ Serialized
        /\ \A i \in 1 .. Len(request) :
              LET found == Results[i].found_modules
                  errors == Results[i].module_errors
              IN  /\ DOMAIN found = {ModuleKey(l) : l \in JobLibsOf(i)}
                  /\ \A l \in JobLibsOf(i) :
                        /\ found[ModuleKey(l)] = Loaded(l)
                        /\ Failed(l) =>
                              /\ IsSome(errors)
                              /\ ModuleKey(l) \in DOMAIN Unwrap(errors)
                              /\ Len(Unwrap(errors)[ModuleKey(l)]) = 1
                              /\ Unwrap(errors)[ModuleKey(l)][1].name = SymbolsPerLib[l][2][1]
                              /\ Unwrap(errors)[ModuleKey(l)][1].message =
                                    <<"Display", SymbolsPerLib[l][2]>>
                  /\ IsSome(errors) <=> \E l \in JobLibsOf(i) : Failed(l)
                  /\ IsSome(errors) =>
                        DOMAIN Unwrap(errors) = {k \in DOMAIN found : ~found[k]}
        /\ \A p \in FramePositions :
              /\ Failed(LibAt(p)) => NoFunctionFields(ResponseFrameAt(p))
              /\ Loaded(LibAt(p)) =>
                    (IsSome(ResponseFrameAt(p).function)
                        <=> IsSome(SymbolMapLookup(RequestFrameAt(p).address)))

\* One job with a frame in liby, which failed, and a frame in libx, which was
\* symbolicated.
C15_Witness ==
    /\ Serialized
    /\ \E i \in 1 .. Len(request) :
          /\ JobLibsOf(i) = {LibX, LibY}
          /\ Results[i].found_modules[ModuleKey(LibY)] = FALSE
          /\ Results[i].found_modules[ModuleKey(LibX)] = TRUE
          /\ IsSome(Results[i].module_errors)
          /\ DOMAIN Unwrap(Results[i].module_errors) = {ModuleKey(LibY)}
          /\ \E p \in FramePositions :
                p[1] = i /\ Failed(LibAt(p)) /\ ResponseFrameAt(p).module = "liby"
          /\ \E p \in FramePositions :
                /\ p[1] = i /\ Loaded(LibAt(p))
                /\ IsSome(ResponseFrameAt(p).function)

\* C19: in a response the engine built, every request frame in a library
\* whose symbol map loaded finds its address as a key of that library's
\* address_results, with the value None exactly when the lookup gave no
\* info; the unwrap in the frame's serialization does not fail.
C19_AddressKeyPresent ==
    IsSome(response) =>
        /\ \A p \in FramePositions :
              Loaded(LibAt(p)) =>
                  LET found == BTreeMapGet(SymbolsPerLib[LibAt(p)][2].address_results,
                                           RequestFrameAt(p).address)
                  IN  /\ IsSome(found)
                      /\ Unwrap(found) = None
                            <=> SymbolMapLookup(RequestFrameAt(p).address) = None
        /\ IsSome(serialized) => Unwrap(serialized) # <<"Panic">>

\* A frame of libx at an address without a symbol: its key is there with None,
\* and the response was serialized.
C19_Witness ==
    /\ Serialized
    /\ \E p \in FramePositions :
          /\ Loaded(LibAt(p))
          /\ RequestFrameAt(p).address = 0
          /\ AddressResultAt(p) = None
          /\ NoFunctionFields(ResponseFrameAt(p))

PastIdentificationCheck ==
    /\ frame.fn = "load_binary"
    /\ frame.pc = "loop" \/ Len(helper_log) > 0

\* C21: the panic "We checked earlier that we have at least one of debug_id /
\* code_id." of load_binary is never reached: a call that got past the
\* identification check has debug_id or code_id, whatever the other
\* arguments are, so a candidate image that loaded is either compared by
\* debug id or returned.
C21_PanicBranchUnreachable ==
    /\ frame.pc # "panicked"
    /\ PastIdentificationCheck => IsSome(frame.debug_id) \/ IsSome(frame.code_id)

\* load_binary, called with name and code_id and without debug_id, loaded a
\* candidate image and returned it.
C21_Witness ==
    /\ frame.fn = "load_binary"
    /\ frame.pc = "done"
    /\ ~IsSome(frame.debug_id) /\ ~IsSome(frame.debug_name)
    /\ IsSome(frame.code_id) /\ IsSome(frame.name)
    /\ Len(Opened) > 0
    /\ IsOk(Unwrap(frame.result))

\* Candidate c gives an image when load_binary has no debug id: a plain
\* object file, or a dyld shared cache, that its parser accepts.
LoadsWithoutDebugId(c) ==
    LET file == FileAt(c.path)
    IN  /\ file.well_formed
        /\ \/ c.info = "SingleFile" /\ file.kind \in NormalKinds
           \/ c.info = "InDyldCache" /\ file.kind = "DyldCache"

\* What loading candidate c gives, before any id is compared.
CandidateImage(c, debug_id) ==
    IF c.info = "SingleFile" THEN load_binary_from_path(c.path, debug_id)
    ELSE load_file_data_for_dyld_cache(c.path)

OpenedPaths == [i \in 1 .. Len(Opened) |-> Opened[i][2]]
CandidatePaths(n) == [i \in 1 .. n |-> frame.candidate_paths_for_binary[i].path]

\* C22: load_binary called without debug_id (so with name and code_id)
\* returns the image of the first candidate, in the order the host gave,
\* that opens and parses, whatever the code id of that image is, and has
\* opened the candidates up to that one and no later one; if none loads it
\* fails after opening them all.  Called with a debug_id it returns an image
\* only if the image's debug id is the requested one; a candidate whose
\* image has another debug id, or none, leaves UnmatchedDebugIdOptional as
\* the last error and the walk goes on with the next candidate.
C22_FirstLoadedWithoutCodeIdCheck ==
    (frame.fn = "load_binary" /\ PastIdentificationCheck) =>
        LET cands == frame.candidate_paths_for_binary
            loading == {i \in 1 .. Len(cands) : LoadsWithoutDebugId(cands[i])}
            first == CHOOSE i \in loading : \A k \in loading : i <= k
        IN  /\ (~IsSome(frame.debug_id) /\ frame.pc = "done") =>
                  IF loading # {}
                  THEN /\ IsOk(Unwrap(frame.result))
                       /\ Unwrap(frame.result)[2].path = cands[first].path
                       /\ OpenedPaths = CandidatePaths(first)
                  ELSE /\ ~IsOk(Unwrap(frame.result))
                       /\ OpenedPaths = CandidatePaths(Len(cands))
            /\ IsSome(frame.debug_id) =>
                  /\ (frame.pc = "done" /\ IsOk(Unwrap(frame.result))) =>
                        /\ Unwrap(frame.result)[2].debug_id = frame.debug_id
                        /\ Unwrap(frame.result)[2].path = Opened[Len(Opened)][2]
                  /\ (frame.pc = "loop" /\ frame.next > 1) =>
                        LET image == CandidateImage(cands[frame.next - 1], frame.debug_id)
                        IN  /\ OpenedPaths = CandidatePaths(frame.next - 1)
                            /\ IsOk(image) =>
                                  /\ image[2].debug_id # frame.debug_id
                                  /\ frame.last_err =
                                        Some(<<"UnmatchedDebugIdOptional",
                                               Unwrap(frame.debug_id), image[2].debug_id>>)

\* load_binary, called for code id "code1" without a debug id, went past a
\* candidate that did not open, returned the image of the second, whose code
\* id is "code2", and left the third candidate unopened.
C22_Witness ==
    /\ frame.fn = "load_binary"
    /\ frame.pc = "done"
    /\ ~IsSome(frame.debug_id)
    /\ frame.code_id = Some("code1")
    /\ Len(frame.candidate_paths_for_binary) = 3
    /\ OpenedPaths = <<"gone", "libx.id2">>
    /\ IsOk(Unwrap(frame.result))
    /\ ImageCodeId(Unwrap(frame.result)[2]) = Some("code2")

\* load_binary, called with debug id "id1", loaded an image with debug id
\* "id2", kept UnmatchedDebugIdOptional and went on to the next candidate.
C22_WitnessUnmatched ==
    /\ frame.fn = "load_binary"
    /\ frame.pc = "loop"
    /\ frame.debug_id = Some("id1")
    /\ OpenedPaths = <<"libx.id2">>
    /\ frame.last_err = Some(<<"UnmatchedDebugIdOptional", "id1", Some("id2")>>)
    /\ frame.next <= Len(frame.candidate_paths_for_binary)

(***************************************************************************)
(* Further properties of the suspended launch (checked under SpecProcess). *)
(***************************************************************************)
ExecerrMessage(e) == to_be_bytes(e) \o EXECERR_MSG_FOOTER
ExecFailed == IsSome(child.exec_errno)

\* C23: when the child's exec failed with errno E (which is after the resume
\* byte was sent), the child writes the one message E as four big-endian
\* bytes then "NOEX" on the exec-error pipe and exits with status 1; the
\* parent reads that message whole, decodes E, returns Err(E) only once the
\* child has exited, and never returns a RunningProcess.
C23_ExecErrorReported ==
    ExecFailed =>
        LET e == Unwrap(child.exec_errno)
        IN  /\ parent.wrote_resume
            /\ parent.pc \in {"close_resume_sp", "read_execerr", "waitpid", "returned"}
            /\ child.pc \in {"write_execerr", "_exit", "exited"}
            /\ child.pc = "write_execerr" =>
                  pipes.execerr = <<>> /\ parent.result = None
            /\ child.pc \in {"_exit", "exited"} =>
                  \/ /\ pipes.execerr = ExecerrMessage(e)
                     /\ parent.pc \in {"close_resume_sp", "read_execerr"}
                     /\ parent.result = None
                  \/ /\ pipes.execerr = <<>>
                     /\ parent.pc \in {"waitpid", "returned"}
                     /\ parent.result = Some(Err(<<"os error", e>>))
            /\ child.pc = "exited" => child.exit_status = Some(1)
            /\ parent.pc = "returned" => child.pc = "exited"

\* exec failed with errno 13 and unsuspend_and_run has returned Err(13); the
\* child has exited with status 1.
C23_Witness ==
    /\ child.exec_errno = Some(13)
    /\ child.pc = "exited" /\ child.exit_status = Some(1)
    /\ parent.pc = "returned"
    /\ parent.result = Some(Err(<<"os error", 13>>))

\* The read of the resume pipe the child is at would block.
ChildReadBlocked ==
    pipe_read(pipes.resume, HasOpen(open_fds, "resume_sp"), 1) = <<"Blocked">>

ChildExitedUnexecuted ==
    /\ child.pc = "exited"
    /\ child.exit_status = Some(0)
    /\ ~child.exec_called

\* C24: when the parent has closed its end of the resume pipe without
\* writing the resume byte (the SuspendedLaunchedProcess was dropped), the
\* child's read of the resume pipe does not block, since the child closed
\* its own copy of the write end before it reads: it sees end-of-file, never
\* execs, and, scheduled fairly, exits with status 0.
C24_DroppedParentEndsChild ==
    /\ [](parent.pc = "dropped" =>
            /\ ~parent.wrote_resume /\ pipes.resume = <<>>
            /\ ~child.exec_called
            /\ child.pc \in {"close_resume_sp", "close_execerr_rp", "read_resume", "exited"}
            /\ child.pc = "read_resume" => ~ChildReadBlocked
            /\ child.pc = "exited" => child.exit_status = Some(0))
    /\ (parent.pc = "dropped" ~> ChildExitedUnexecuted)

\* The parent dropped the process while the child was blocked in its read
\* (it had been interrupted once there); the child has exited with status 0.
C24_Witness ==
    /\ parent.pc = "dropped"
    /\ child.interrupts = 1
    /\ ChildExitedUnexecuted

(***************************************************************************)
(* Further properties of LibMappings (checked under SpecMap).              *)
(***************************************************************************)
\* Every mapping of the table is shorter than 2^32 bytes.
ShortMappings(ranges) ==
    \A i \in 1 .. Len(ranges) : ranges[i].end_avma - ranges[i].start_avma < U32Modulus

\* The mapping convert_address answers avma from, when it covers avma.
AnsweringMapping(ranges, avma) ==
    {e \in {ranges[i] : i \in 1 .. Len(ranges)} :
        lookup(ranges, avma) = Some(e) /\ e.start_avma <= avma /\ avma < e.end_avma}

\* C25 as stated: in a table whose mappings are all shorter than 2^32 bytes,
\* for an address avma covered by the mapping it is answered from,
\* convert_address returns relative_address_at_start + (avma - start_avma)
\* exactly: the offset is not truncated and the addition neither wraps nor
\* overflows.
C25_ExactRelativeAddress ==
    (last_call.op = "convert_address" /\ ShortMappings(sorted_lib_ranges)) =>
        \A e \in AnsweringMapping(sorted_lib_ranges, last_call.avma) :
            /\ e.relative_address_at_start + (last_call.avma - e.start_avma) <= U32Max
            /\ last_call.result =
                  <<"Some", e.relative_address_at_start + (last_call.avma - e.start_avma),
                    e.value>>

\* The part of C25 that holds: under the same precondition the cast to u32
\* leaves the offset as it is, and the result is the exact sum whenever that
\* sum fits in a u32.
C25_OffsetNotTruncated ==
    (last_call.op = "convert_address" /\ ShortMappings(sorted_lib_ranges)) =>
        \A e \in AnsweringMapping(sorted_lib_ranges, last_call.avma) :
            LET offset == last_call.avma - e.start_avma
            IN  /\ offset % U32Modulus = offset
                /\ e.relative_address_at_start + offset <= U32Max =>
                      last_call.result =
                          <<"Some", e.relative_address_at_start + offset, e.value>>

\* What a search by key over a vector sorted by start_avma has to return:
\* Ok(i) for the entry with that start, else Err(i) with i the number of
\* entries that start below the key.
SearchByScan(ranges, key) ==
    IF \E i \in 1 .. Len(ranges) : ranges[i].start_avma = key
    THEN <<"Ok", (CHOOSE i \in 1 .. Len(ranges) : ranges[i].start_avma = key) - 1>>
    ELSE <<"Err", Cardinality({i \in 1 .. Len(ranges) : ranges[i].start_avma < key})>>

\* C26: after any sequence of add_mapping and remove_mapping calls from the
\* empty table, with ranges in any order, nested, overlapping, empty or
\* inverted, the entries are in strictly ascending order of start_avma, no
\* two with the same start; so the binary search of add_mapping and lookup
\* runs on a sorted vector and finds what a scan of the vector finds.
C26_StrictlyAscendingStarts ==
    /\ \A i \in 1 .. Len(sorted_lib_ranges) - 1 :
          sorted_lib_ranges[i].start_avma < sorted_lib_ranges[i + 1].start_avma
    /\ \A key \in Avmas :
          binary_search_by_key(sorted_lib_ranges, key) = SearchByScan(sorted_lib_ranges, key)

\* A remove_mapping has left two of three entries, an inverted range in
\* front of one that lies inside the range that was removed.
C26_Witness ==
    /\ last_call.op = "remove_mapping"
    /\ last_call.len_before = 3
    /\ Len(sorted_lib_ranges) = 2
    /\ sorted_lib_ranges[1].start_avma = 1 /\ sorted_lib_ranges[1].end_avma = 6
    /\ sorted_lib_ranges[2].start_avma = 2 /\ sorted_lib_ranges[2].end_avma = 1

\* The entries that start at or below avma, and the one of them with the
\* greatest start.
StartingAtOrBelow(ranges, avma) == {i \in 1 .. Len(ranges) : ranges[i].start_avma <= avma}
Nearest(ranges, avma) ==
    ranges[CHOOSE i \in StartingAtOrBelow(ranges, avma) :
              \A k \in StartingAtOrBelow(ranges, avma) :
                  ranges[k].start_avma <= ranges[i].start_avma]
AnsweredFrom(result, e, avma) ==
    \/ /\ result = <<"Panic">>
       /\ e.relative_address_at_start + (avma - e.start_avma) > U32Max
    \/ result = <<"Some", (e.relative_address_at_start + (avma - e.start_avma)) % U32Modulus,
                  e.value>>

OwnAnswers(t) ==
    LET loaded == load_external_file(AddressOf(t).file_ref)
    IN  {None} \cup
        (IF IsOk(loaded)
         THEN {external_file_lookup(loaded[2], AddressOf(t).address_in_file)}
         ELSE {})

\* A file that every call holds or has stored is the file of its own file_ref.
HoldsOwnFile(t) ==
    IsSome(calls[t].external_file)
        => is_same_file(Unwrap(calls[t].external_file), AddressOf(t).file_ref)

\* The load of a call fails: the call returns None, and the slot stays.
FailedLoadStep(t) ==
    /\ calls[t].pc = "loading"
    /\ calls'[t].pc # "loading"
    /\ ~IsOk(load_external_file(AddressOf(t).file_ref))

\* C28: for every interleaving of concurrent lookup_external calls, each
\* call returns None or the lookup of its own address_in_file in a file that
\* matches its own file_ref, never an answer taken from the file another call
\* loaded; a load that fails returns None and leaves the slot unchanged.
C28_AnswersFromOwnFile ==
    /\ [](\A t \in Tasks :
             /\ calls[t].pc # "idle" => HoldsOwnFile(t)
             /\ calls[t].pc = "done"
                   => /\ IsSome(calls[t].result)
                      /\ Unwrap(calls[t].result) \in OwnAnswers(t))
    /\ [][\A t \in Tasks :
             FailedLoadStep(t)
                 => /\ calls'[t].pc = "done"
                    /\ calls'[t].result = Some(None)
                    /\ cached_external_file' = cached_external_file
                    /\ last_store' = last_store]_vars

\* Two calls for different files ran at once: the second stored "b.o" last,
\* and the first still returned the frames of "a.o".
C28_Witness ==
    /\ calls["t1"].pc = "done" /\ calls["t2"].pc = "done"
    /\ FileNameOf("t1") = "a.o" /\ FileNameOf("t2") = "b.o"
    /\ ~calls["t1"].hit /\ ~calls["t2"].hit
    /\ SlotHolds("b.o")
    /\ IsSome(Unwrap(calls["t1"].result))
    /\ Unwrap(Unwrap(calls["t1"].result))[1].file_path = Some("a.o")
    /\ IsSome(Unwrap(calls["t2"].result))

\* A call for a file that cannot be read returned None while the slot kept
\* the file another call had stored.
C28_WitnessFailedLoad ==
    \E t \in Tasks :
        /\ calls[t].pc = "done" /\ FileNameOf(t) = "gone.o"
        /\ calls[t].opened = <<"gone.o">>
        /\ calls[t].result = Some(None)
        /\ SlotHolds("a.o")


(***************************************************************************)
(* The interner as a one-to-one map from strings to handles.               *)
(***************************************************************************)
HandlesOf(g) == {SymbolMapStringHandle(g, i) : i \in HandleIndexes}

\* The handles the interner of generation g has issued: those that resolve.
IssuedHandles(g) ==
    {h \in HandlesOf(g) : resolve(interners[g], h) # Ok(None)}

\* The three ways to intern the string s, as calls on an interner.
InternCalls(self, s) ==
    {intern(self, s), intern_owned(self, s),
     intern_cow(self, <<"Borrowed", s>>), intern_cow(self, <<"Owned", s>>)}

\* The handle the last interning call returned resolves to its string.
ReturnedHandleResolves ==
    last_resolve.op \in {"intern", "intern_cow"}
        => resolve(interners[last_resolve.interner], last_resolve.handle)
              = Ok(Some(last_resolve.string))

\* Interning s by any of the calls returns the one issued handle of s if
\* there is one, and otherwise a handle that was not issued before; the
\* handle resolves to s afterwards.
SameHandleIffSameString ==
    \A g \in Generations, s \in Strings :
        \A r \in InternCalls(interners[g], s) :
            /\ resolve(r[1], r[2]) = Ok(Some(s))
            /\ \A h \in IssuedHandles(g) :
                  h = r[2] <=> resolve(interners[g], h) = Ok(Some(s))
            /\ \A s2 \in Strings : \A r2 \in InternCalls(r[1], s2) :
                  r2[2] = r[2] <=> s2 = s

\* No step changes the string an issued handle resolves to.
IssuedHandlesKeepResolving ==
    \A g \in Generations : \A h \in IssuedHandles(g) :
        resolve(interners'[g], h) = resolve(interners[g], h)

\* C29: for any sequence of intern, intern_owned and intern_cow calls on an
\* interner, every handle ever returned keeps resolving to the string it was
\* issued for, and two calls return the same handle exactly when they were
\* given equal strings, also when a string is interned borrowed first and
\* owned afterwards (or owned first and borrowed afterwards).
C29_InternerIsInjective ==
    /\ [](ReturnedHandleResolves /\ SameHandleIffSameString)
    /\ [][IssuedHandlesKeepResolving]_vars

\* "foo" was interned borrowed and "bar" owned; interning an owned "foo"
\* afterwards returned the borrowed handle of "foo".
C29_Witness ==
    /\ interners[1].borrowed_strings = <<"foo">>
    /\ interners[1].owned_strings = <<"bar">>
    /\ last_resolve.op = "intern_cow"
    /\ last_resolve.cow = "Owned"
    /\ last_resolve.interner = 1
    /\ last_resolve.string = "foo"
    /\ last_resolve.handle = SymbolMapStringHandle(1, 0)


(***************************************************************************)
(* The handshake of unsuspend_and_run and run_child ends.                  *)
(***************************************************************************)
UnsuspendCalled == parent.wrote_resume
UnsuspendReturned == parent.pc \in {"returned", "waited"}
ExecSucceeded == child.exec_called /\ child.exec_errno = None

\* What unsuspend_and_run returned, kept apart from what wait() returns later.
ReturnedRunningProcess ==
    parent.pc = "waited" \/ (parent.pc = "returned" /\ IsOk(Unwrap(parent.result)))
ReturnedErr ==
    parent.pc = "returned" /\ ~IsOk(Unwrap(parent.result))

\* C30: the handshake cannot deadlock: once the parent has called
\* unsuspend_and_run, under fair scheduling the call returns; it returns
\* Ok(RunningProcess) exactly when the exec succeeded (the close-on-exec
\* exec-error pipe then reads end-of-file) and Err with the errno exactly when
\* the exec failed; it never panics, and a read interrupted by a signal on
\* either side is retried and changes none of this.
C30_HandshakeTerminates ==
    /\ [](/\ parent.pc \notin {"panicked", "waitpid_then_panic"}
          /\ ReturnedRunningProcess
                => /\ ExecSucceeded
                   /\ ~HasOpen(open_fds, "execerr_sp")
                   /\ pipes.execerr = <<>>
          /\ ReturnedErr
                => /\ ExecFailed
                   /\ Unwrap(parent.result) =
                         Err(<<"os error", Unwrap(child.exec_errno)>>)
                   /\ child.pc = "exited"
          /\ UnsuspendReturned => UnsuspendCalled)
    /\ (UnsuspendCalled ~> UnsuspendReturned)

\* Both reads were interrupted once, the exec succeeded, and the parent has
\* its RunningProcess while the command is still running.
C30_Witness ==
    /\ parent.pc = "returned"
    /\ IsOk(Unwrap(parent.result))
    /\ parent.interrupts = MaxInterrupts
    /\ child.interrupts = MaxInterrupts
    /\ child.pc = "running"

\* Both reads were interrupted once, the exec failed, and the parent has the
\* error.
C30_WitnessExecFailed ==
    /\ ReturnedErr
    /\ parent.interrupts = MaxInterrupts
    /\ child.interrupts = MaxInterrupts
    /\ child.exec_errno = Some(13)

====
